---- MODULE Spec2Model ----
(***************************************************************************)
(* Test discovery and execution engine of vscode-catch2-test-adapter.      *)
(*                                                                         *)
(* Specification Spec models the execution orchestrator:                   *)
(*   RootSuite.run / runTasks / sendStartEventIfNeeded /                   *)
(*   sendFinishedEventIfNeeded                 (src/src/RootSuite.ts)      *)
(*   AbstractRunnable.run / _runInner / _runProcess / runTasks /           *)
(*   reloadTests / sentStaticErrorEvent        (src/src/AbstractRunnable.ts)*)
(*   the exit handling of _handleProcess (src/src/framework/GoogleTestRunnable.ts)*)
(* Every action is one run-to-completion step of the JavaScript event loop:*)
(* the code between two awaits.                                            *)
(***************************************************************************)
EXTENDS Integers, Sequences, FiniteSets, Bags, TLC

(***************************************************************************)
(* Bounds of the model.                                                    *)
(***************************************************************************)
NumExecs == 2
TestsPerExec == 2
MaxRuns == 2
MaxSel == 2
MaxGlobal == 2
MaxParallel == 2
MaxTasks == 2
MaxEnv == 1

Execs == 1..NumExecs
Runs == 1..MaxRuns

(***************************************************************************)
(* TestNodes.  <<e, i>> with i >= 1 is the i-th test of executable e;      *)
(* <<e, 0>> is the error node _createAndAddError synthesizes for e.        *)
(***************************************************************************)
RealTests(e) == {<<e, i>> : i \in 1..TestsPerExec}
ErrTest(e) == <<e, 0>>
AllTests == UNION {RealTests(e) \cup {ErrTest(e)} : e \in Execs}
ExecOf(t) == t[1]

\* AbstractTest._staticEvent: only the synthesized error node carries one
HasStaticEvent(t) == t[2] = 0

\* AbstractTest.skipped: the error node is constructed with skipped = true
Skipped(t) == t[2] = 0

\* testNameAsId.length
IdLen(t) == IF t[2] = 0 THEN 33 ELSE IF t[1] = 1 THEN 15000 ELSE 10

Max(a, b) == IF a >= b THEN a ELSE b
Min(a, b) == IF a <= b THEN a ELSE b

\* Math.round(a / b) for a >= 0, b > 0
Round(a, b) == (2 * a + b) \div (2 * b)

TestLess(s, t) == s[1] < t[1] \/ (s[1] = t[1] /\ s[2] < t[2])

\* traversal order of the tree over a set of TestNodes
RECURSIVE InOrder(_)
InOrder(S) ==
  IF S = {} THEN <<>>
  ELSE LET m == CHOOSE x \in S : \A y \in S : x = y \/ TestLess(x, y)
       IN <<m>> \o InOrder(S \ {m})

Range(s) == {s[i] : i \in 1..Len(s)}

(***************************************************************************)
(* TaskPool (src/util/TaskPool.ts): at most max units run, the rest wait   *)
(* in FIFO order.                                                          *)
(***************************************************************************)
EmptyPool == [running |-> {}, queue |-> <<>>]

scheduleTask(pool, max, u) ==
  IF Cardinality(pool.running) < max
  THEN [pool EXCEPT !.running = @ \cup {u}]
  ELSE [pool EXCEPT !.queue = Append(@, u)]

releaseTask(pool, u) ==
  IF pool.queue = <<>>
  THEN [pool EXCEPT !.running = @ \ {u}]
  ELSE [running |-> (pool.running \ {u}) \cup {Head(pool.queue)},
        queue |-> Tail(pool.queue)]

Holds(pool, u) == u \in pool.running

(***************************************************************************)
(* AbstractRunnable._splitTestSetForMultirunIfEnabled                      *)
(***************************************************************************)
RoundRobin(tests, n) ==
  [k \in 1..n |-> SelectSeq(tests, LAMBDA t :
      \E i \in 1..Len(tests) : tests[i] = t /\ ((i - 1) % n) + 1 = k)]

SplitTestSetForMultirunIfEnabled(tests, limit, allCount) ==
  IF limit > 1
  THEN LET testPerTask == Max(1, Round(allCount, limit))
           targetTaskCount == Min(Len(tests), Max(1, Round(Len(tests), testPerTask)))
       IN RoundRobin(tests, targetTaskCount)
  ELSE <<tests>>

(***************************************************************************)
(* AbstractRunnable._splitTestsToSmallEnoughSubsets                        *)
(***************************************************************************)
SplitLimit == 30000

RECURSIVE SplitFrom(_, _, _, _)
SplitFrom(tests, i, subsets, charCount) ==
  IF i > Len(tests) THEN subsets
  ELSE LET t == tests[i]
           opened == IF charCount + IdLen(t) >= SplitLimit
                     THEN Append(subsets, <<>>) ELSE subsets
           n == Len(opened)
       IN SplitFrom(tests, i + 1, [opened EXCEPT ![n] = Append(@, t)],
                    charCount + IdLen(t))

SplitTestsToSmallEnoughSubsets(tests) == SplitFrom(tests, 1, <<(<<>>)>>, 0)

(***************************************************************************)
(* State of the orchestrator.                                              *)
(***************************************************************************)
VARIABLES
  cfg,             \* configuration: pool limits and number of tasks per stage
  gPool,           \* TestHierarchyShared.taskPool, the process-wide pool
  ePool,           \* RunnableProperties.parallelizationPool of each executable
  counter,         \* Suite._runningCounter of the RootSuite
  tokenGen,        \* which RootSuite._cancellationTokenSource is current
  cancelled,       \* the token sources on which cancel() was called
  run,             \* one record per RootSuite.run call
  er,              \* one record per AbstractRunnable.run call, er[r][e]
  rl,              \* the scheduled or running reloadTests units
  tests,           \* AbstractRunnable._tests of each executable (= its leaves in the tree)
  lastReloadTime,  \* AbstractRunnable._lastReloadTime, 0 is undefined
  tstate,          \* AbstractTest.state of each TestNode
  mtime,           \* modification time of each executable on disk
  binTests,        \* the tests each executable on disk enumerates
  budget,          \* how many environment events (faults, rebuilds, external
                   \* reloads, cancellations, further run requests) may still happen
  treeCfg,         \* grouping configuration of the executables
  groups,          \* the Suite objects, groups[1] is the RootSuite
  nodes,           \* the AbstractTest objects
  testSet,         \* AbstractRunnable._tests as a set of objects, per executable
  treeRl,          \* the _reloadChildren calls that build the tree
  treeLog,         \* what the last completed reload of each executable enumerated
  knownTests,      \* the testNameAsId values of _tests while one process is parsed
  requested,       \* runInfo.childrenToRun of that process, by testNameAsId
  output,          \* everything the process writes, were it to run to its end
  pending,         \* the part of output not yet delivered by a 'data' event
  data,            \* the data object of _handleProcess
  events,          \* the test and group events sent so far
  proc,            \* the process and what followed its close event
  loop,            \* one processChunk call: the buffer and the loop guard
  timer,           \* one _runProcess call: the clock, the timers and the process
  split,           \* one selection of tests and the sub-batches made of it
  cache,           \* one _reloadChildren call and the files it looks at
  factory          \* one TestSuiteInfoFactory.create call

treeVars == <<treeCfg, groups, nodes, testSet, treeRl, treeLog>>

orchVars == <<cfg, gPool, ePool, counter, tokenGen, cancelled, run, er, rl, tests,
              lastReloadTime, tstate, mtime, binTests, budget>>

parseVars == <<knownTests, requested, output, pending, data, events, proc>>

auxVars == <<cache, factory>>

stepVars == <<loop, timer, split, auxVars>>

vars == <<orchVars, treeVars, parseVars, stepVars>>

\* the part of the state the handlers below transform
Cur == [gPool |-> gPool, ePool |-> ePool, counter |-> counter, run |-> run,
        er |-> er, rl |-> rl, tests |-> tests, lastReloadTime |-> lastReloadTime,
        tstate |-> tstate, cancelled |-> cancelled, cfg |-> cfg]

Becomes(S) ==
  /\ gPool' = S.gPool
  /\ ePool' = S.ePool
  /\ counter' = S.counter
  /\ run' = S.run
  /\ er' = S.er
  /\ rl' = S.rl
  /\ tests' = S.tests
  /\ lastReloadTime' = S.lastReloadTime
  /\ tstate' = S.tstate
  /\ cancelled' = S.cancelled
  /\ cfg' = S.cfg
  /\ UNCHANGED <<treeVars, stepVars, parseVars>>

Stages == {"before", "beforeEach", "after", "afterEach"}

U(kind, r, e, b) == <<kind, r, e, b>>

\* run[r]: a RootSuite.run call.  targets are the tests of its `runnables` map;
\* failed is the stage whose task exited non-zero
IdleRun == [pc |-> "idle", sel |-> {}, parentIn |-> FALSE, tok |-> 0,
            runnables |-> {}, targets |-> {}, idx |-> 0, finishedSent |-> 0,
            failed |-> "none", afterRuns |-> 0]

\* er[r][e]: the AbstractRunnable.run call of run r on executable e
IdleEr == [pc |-> "idle", idx |-> 0, batches |-> <<>>, beOk |-> FALSE,
           failed |-> "none", targets |-> {}, reloadCalled |-> FALSE, aeRuns |-> 0]

\* a reloadTests unit: waiting for the pool or for fs.stat ("stat"), enumerating
\* ("enum"), or adding the enumerated tests one by one ("apply").  behind
\* records which reloads of the executable were inside _reloadChildren when
\* this one was requested
NewReload(S, id, e, tok) ==
  [id |-> id, e |-> e, tok |-> tok, pc |-> "stat", todo |-> <<>>, result |-> {},
   behind |-> {v.id : v \in {w \in S.rl : w.e = e /\ w.pc \in {"enum", "apply"}}}]

\* CancellationToken.isCancellationRequested of the token run r was given
IsCancelled(S, tok) == tok \in S.cancelled

(***************************************************************************)
(* Continuations: what runs, without an await in between, when a promise   *)
(* settles.  Each maps a state record to a state record.                   *)
(***************************************************************************)

\* sendFinishedEventIfNeeded as it would be without `this._runningCounter -= 1`
sendFinishedEventKeepsCounter(S, r) ==
  IF S.counter < 1
  THEN [S EXCEPT !.counter = 0]
  ELSE [S EXCEPT !.run[r].finishedSent = @ + 1]

\* RootSuite.sendFinishedEventIfNeeded
sendFinishedEventIfNeeded(S, r) ==
  IF S.counter < 1
  THEN [S EXCEPT !.counter = 0]
  ELSE [S EXCEPT !.run[r].finishedSent = @ + 1, !.counter = @ - 1]

\* RootSuite.run: the finished event, then `return this._runningPromise`,
\* which is resolved when the counter goes from 1 to 0
RunEnds(S, r) ==
  LET T == sendFinishedEventIfNeeded([S EXCEPT !.run[r].pc = "finished"], r)
  IN IF S.counter = 1
     THEN [T EXCEPT !.run = [q \in Runs |->
                IF T.run[q].pc = "finished"
                THEN [T.run[q] EXCEPT !.pc = "returned"] ELSE T.run[q]]]
     ELSE T

\* AbstractRunnable.sendStaticEvents / sentStaticErrorEvent with
\* AbstractTest.getStaticEvent: the event passed in is not used
sendStaticEvents(S, ts) ==
  [S EXCEPT !.tstate = [t \in AllTests |->
      IF t \in ts /\ HasStaticEvent(t) THEN "Errored" ELSE S.tstate[t]]]

\* Suite.collectTestToRun / AbstractTest.collectTestToRun filtered to executable e
collectChildrenToRun(S, r, e) ==
  InOrder({t \in S.tests[e] :
             (S.run[r].parentIn /\ ~Skipped(t)) \/ t \in S.run[r].sel})

\* RootSuite._collectRunnables: the executables with a test to run
collectRunnables(S, r) == {e \in Execs : collectChildrenToRun(S, r, e) # <<>>}

\* the tests of the map RootSuite._collectRunnables returns
TargetsOf(S, r) == UNION {Range(collectChildrenToRun(S, r, e)) : e \in Execs}

\* RootSuite.runTasks: the union of the runnables' task lists
RootTaskCount(S, r, type) ==
  IF S.run[r].runnables = {} THEN 0 ELSE S.cfg.tasks[type]

\* RootSuite.run after `await Promise.all(ps)`
RunAfterStage(S, r) ==
  IF RootTaskCount(S, r, "after") = 0
  THEN RunEnds(S, r)
  ELSE [S EXCEPT !.run[r].pc = "after", !.run[r].idx = 1,
                 !.run[r].afterRuns = @ + 1]

\* AbstractRunnable.run settles (resolved: "done", rejected: "rejected")
ExecEnd(S, r, e, how) ==
  LET T == [S EXCEPT !.er[r][e].pc = how]
  IN IF \A x \in T.run[r].runnables : T.er[r][x].pc \in {"done", "rejected"}
     THEN RunAfterStage(T, r)
     ELSE T

\* AbstractRunnable.run after Promise.all: runTasks('afterEach')
StartAfterEach(S, r, e) ==
  IF S.cfg.tasks["afterEach"] = 0
  THEN ExecEnd(S, r, e, "done")
  ELSE [S EXCEPT !.gPool = scheduleTask(@, S.cfg.global, U("ae", r, e, 0)),
                 !.er[r][e].pc = "afterEach", !.er[r][e].idx = 1,
                 !.er[r][e].aeRuns = @ + 1]

\* AbstractRunnable._runInner: the call, up to parallelizationPool.scheduleTask
runInner(S, r, e, b) ==
  [S EXCEPT !.ePool[e] = scheduleTask(@, S.cfg.parallel, U("in", r, e, b)),
            !.er[r][e].batches[b].pc = "waitExec"]

ChainResolved(pc) == pc \in {"reWait", "reRunning", "done"}

NextInBucket(bs, b) ==
  IF b + 1 <= Len(bs) /\ bs[b + 1].bucket = bs[b].bucket THEN b + 1 ELSE 0

\* the promise of _runInner for batch b resolved: the bucket's for loop goes
\* on, and Promise.all resolves once every bucket is through
ChainContinue(S, r, e, b) ==
  LET bs == S.er[r][e].batches
      nb == NextInBucket(bs, b)
  IN IF nb # 0 THEN runInner(S, r, e, nb)
     ELSE IF S.er[r][e].pc = "batches" /\ \A i \in 1..Len(bs) : ChainResolved(bs[i].pc)
          THEN StartAfterEach(S, r, e)
          ELSE S

\* the promise of _runInner for batch b rejected: the bucket's loop ends
\* and Promise.all rejects, so AbstractRunnable.run rejects
ChainFail(S, r, e, b) ==
  LET bs == S.er[r][e].batches
      T == [S EXCEPT !.er[r][e].batches = [i \in 1..Len(bs) |->
              IF i > b /\ bs[i].bucket = bs[b].bucket
              THEN [bs[i] EXCEPT !.pc = "skipped"] ELSE bs[i]]]
  IN IF T.er[r][e].pc = "batches" THEN ExecEnd(T, r, e, "rejected") ELSE T

RECURSIVE Flatten(_, _)
Flatten(buckets, k) ==
  IF k > Len(buckets) THEN <<>>
  ELSE LET subs == SplitTestsToSmallEnoughSubsets(buckets[k])
       IN [i \in 1..Len(subs) |->
             [tests |-> subs[i], bucket |-> k, first |-> i = 1, pc |-> "pending"]]
          \o Flatten(buckets, k + 1)

RECURSIVE StartFirst(_, _, _, _)
StartFirst(S, r, e, b) ==
  IF b > Len(S.er[r][e].batches) THEN S
  ELSE StartFirst(IF S.er[r][e].batches[b].first THEN runInner(S, r, e, b) ELSE S,
                  r, e, b + 1)

\* AbstractRunnable.run after `await this.reloadTests(...)`
AfterReload(S, r, e) ==
  LET childrenToRun == collectChildrenToRun(S, r, e)
      buckets == SplitTestSetForMultirunIfEnabled(childrenToRun, S.cfg.parallel,
                                                  Cardinality(S.tests[e]))
  IN IF Len(childrenToRun) = 0
     THEN ExecEnd(S, r, e, "done")
     ELSE StartFirst([S EXCEPT !.er[r][e].pc = "batches",
                               !.er[r][e].batches = Flatten(buckets, 1)], r, e, 1)

\* AbstractRunnable.reloadTests as called from AbstractRunnable.run
ReloadFromRun(S, r, e) ==
  IF IsCancelled(S, S.run[r].tok)
  THEN AfterReload([S EXCEPT !.er[r][e].reloadCalled = TRUE], r, e)
  ELSE [S EXCEPT !.gPool = scheduleTask(@, S.cfg.global, U("rlrun", r, e, 0)),
                 !.rl = @ \cup {NewReload(S, U("rlrun", r, e, 0), e, S.run[r].tok)},
                 !.er[r][e].pc = "reload", !.er[r][e].reloadCalled = TRUE]

\* AbstractRunnable.run: the catch around runTasks('beforeEach'), with the
\* `return` left out: the run goes on to reloadTests
BeforeEachFailedGoesOn(S, r, e) ==
  LET children == Range(collectChildrenToRun(S, r, e))
  IN ReloadFromRun(sendStaticEvents(
         [S EXCEPT !.er[r][e].failed = "beforeEach", !.er[r][e].targets = children],
         children), r, e)

\* AbstractRunnable.run: the catch around runTasks('beforeEach')
BeforeEachFailed(S, r, e) ==
  LET children == Range(collectChildrenToRun(S, r, e))
  IN ExecEnd(sendStaticEvents(
         [S EXCEPT !.er[r][e].failed = "beforeEach", !.er[r][e].targets = children],
         children), r, e, "done")

\* AbstractRunnable.run: the catch around runTasks('afterEach')
AfterEachFailed(S, r, e) ==
  LET children == Range(collectChildrenToRun(S, r, e))
  IN ExecEnd(sendStaticEvents(
         [S EXCEPT !.er[r][e].failed = "afterEach", !.er[r][e].targets = children],
         children), r, e, "done")

\* AbstractRunnable.run up to its first await
StartExec(S, r, e) ==
  IF S.cfg.tasks["beforeEach"] = 0
  THEN ReloadFromRun(S, r, e)
  ELSE [S EXCEPT !.gPool = scheduleTask(@, S.cfg.global, U("be", r, e, 0)),
                 !.er[r][e].pc = "beforeEach", !.er[r][e].idx = 1]

RECURSIVE StartExecs(_, _, _)
StartExecs(S, r, e) ==
  IF e > NumExecs THEN S
  ELSE StartExecs(IF e \in S.run[r].runnables THEN StartExec(S, r, e) ELSE S, r, e + 1)

\* RootSuite.run: the catch around runTasks('before') and the catch around
\* runTasks('after'); the tests are those of the `runnables` map
StageFailed(S, r, stage) ==
  RunEnds(sendStaticEvents([S EXCEPT !.run[r].failed = stage], S.run[r].targets), r)

\* RootSuite.run after the before stage succeeded
LaunchRunnables(S, r) ==
  LET T == [S EXCEPT !.run[r].runnables = collectRunnables(S, r),
                     !.run[r].targets = TargetsOf(S, r),
                     !.run[r].pc = "running"]
  IN IF T.run[r].runnables = {} THEN RunAfterStage(T, r) ELSE StartExecs(T, r, 1)

(***************************************************************************)
(* reloadTests units                                                       *)
(***************************************************************************)
ReplaceRl(S, u, v) == [S EXCEPT !.rl = (@ \ {u}) \cup {v}]

\* the promise of reloadTests resolved
ReloadResolved(S, u) ==
  LET T == [S EXCEPT !.gPool = releaseTask(@, u.id), !.rl = @ \ {u}]
      r == u.id[2]
  IN IF u.id[1] = "rlrun" /\ T.er[r][u.e].pc = "reload"
     THEN AfterReload(T, r, u.e)
     ELSE T

\* the promise of reloadTests rejected (_reloadChildren threw)
ReloadRejected(S, u) ==
  LET T == [S EXCEPT !.gPool = releaseTask(@, u.id), !.rl = @ \ {u}]
      r == u.id[2]
  IN IF u.id[1] = "rlrun" /\ T.er[r][u.e].pc = "reload"
     THEN ExecEnd(T, r, u.e, "rejected")
     ELSE T

\* AbstractRunnable.reloadTests after `await this._reloadChildren(...)`:
\* every known test the reload result lacks is removed.  A removed TestNode
\* object never comes back (a later reload creates a new one), so it is
\* dropped from the selections too.
ReloadApply(S, u, result) ==
  LET toRemove == S.tests[u.e] \ result
      T == [S EXCEPT !.tests[u.e] = @ \ toRemove,
                     !.run = [q \in Runs |-> [S.run[q] EXCEPT !.sel = @ \ toRemove]]]
  IN ReloadResolved(T, u)

(***************************************************************************)
(* The test tree: Suite and AbstractTest objects.  An object is its index  *)
(* in groups or nodes; children holds <<"suite", g>> and <<"test", n>>.    *)
(***************************************************************************)
MaxTreeReloads == 2      \* _reloadChildren calls in one behaviour
MaxEntries == 2          \* tests one enumeration lists
MaxDepth == 2            \* grouping levels: executable, then source or tags

Idents == {"a", "b"}     \* testNameAsId values
Keys == {"X", "Y"}       \* what the level below the executable resolves to
\* the tuples an enumeration may list: test a is seen in either group, test b
\* in the first only
Tuples == {tu \in Idents \X Keys : tu[1] = "a" \/ tu[2] = "X"}
ErrorIdent == "Unexpected ERROR while parsing"

RootId == 1
NoObject == 0

First(S) == CHOOSE i \in S : \A j \in S : i <= j

NewSuite(label, parent) == [label |-> label, parent |-> parent, children |-> <<>>]

TreeCur == [groups |-> groups, nodes |-> nodes, testSet |-> testSet]

TreeBecomes(T) ==
  /\ groups' = T.groups
  /\ nodes' = T.nodes
  /\ testSet' = T.testSet

\* Suite.compare(label, description): a label here is the resolved pair
SuiteCompare(suite, label) == suite.label = label

\* group.children.find(cond) of _getOrCreateChildSuite
FindChildSuite(T, group, label) ==
  LET ch == T.groups[group].children
      hits == {i \in 1..Len(ch) : /\ ch[i][1] = "suite"
                                  /\ SuiteCompare(T.groups[ch[i][2]], label)}
  IN IF hits = {} THEN NoObject ELSE ch[First(hits)][2]

\* group.addSuite(new Suite(shared, group, label, description, tooltip))
addSuite(T, group, label) ==
  LET id == Len(T.groups) + 1
      linked == [T.groups EXCEPT ![group].children = Append(@, <<"suite", id>>)]
  IN [T |-> [T EXCEPT !.groups = Append(linked, NewSuite(label, group))],
      suite |-> id]

CreatesChildSuite(T, group, label) == addSuite(T, group, label)

getOrCreateChildSuite(T, group, label) ==
  LET found == FindChildSuite(T, group, label)
  IN IF found # NoObject THEN [T |-> T, suite |-> found]
     ELSE addSuite(T, group, label)

\* compare(testNameAsId) of a test; the one of an error node is always true
TestCompare(node, ident) == node.err \/ node.ident = ident

\* group.children.find(t => t instanceof AbstractTest && t.compare(id))
FindChildTest(T, group, ident) ==
  LET ch == T.groups[group].children
      hits == {i \in 1..Len(ch) : /\ ch[i][1] = "test"
                                  /\ TestCompare(T.nodes[ch[i][2]], ident)}
  IN IF hits = {} THEN NoObject ELSE ch[First(hits)][2]

\* group.addTest(createTest(group)); this._tests.add(test)
addTest(T, group, e, ident, err) ==
  LET id == Len(T.nodes) + 1
      node == [ident |-> ident, e |-> e, parent |-> group, err |-> err]
  IN [T |-> [T EXCEPT !.groups[group].children = Append(@, <<"test", id>>),
                      !.nodes = Append(@, node),
                      !.testSet[e] = @ \cup {id}],
      test |-> id]

Without(children, c) == SelectSeq(children, LAMBDA x : x # c)

\* Suite.removeIfLeaf: an empty group leaves its parent, which is asked next
RECURSIVE removeIfLeaf(_, _)
removeIfLeaf(G, g) ==
  IF G[g].children # <<>> \/ G[g].parent = NoObject THEN G
  ELSE LET p == G[g].parent
       IN removeIfLeaf([G EXCEPT ![p].children = Without(@, <<"suite", g>>)], p)

KeepsEmptyGroups(T, n) ==
  [T EXCEPT !.groups[T.nodes[n].parent].children = Without(@, <<"test", n>>)]

removeWithLeafAscendants(T, n) ==
  LET p == T.nodes[n].parent
  IN IF <<"test", n>> \notin Range(T.groups[p].children) THEN T
     ELSE [T EXCEPT !.groups =
             removeIfLeaf([T.groups EXCEPT ![p].children = Without(@, <<"test", n>>)], p)]

\* toRemove.forEach(t => { t.removeWithLeafAscendants(); this._tests.delete(t) })
RECURSIVE RemoveEach(_, _, _)
RemoveEach(T, e, toRemove) ==
  IF toRemove = {} THEN T
  ELSE LET n == First(toRemove)
           T1 == removeWithLeafAscendants(T, n)
       IN RemoveEach([T1 EXCEPT !.testSet[e] = @ \ {n}], e, toRemove \ {n})

\* the groups and tests one reaches from the root
RECURSIVE Below(_, _)
Below(G, g) ==
  {g} \cup UNION {Below(G, c[2]) : c \in {x \in Range(G[g].children) : x[1] = "suite"}}

GroupsInTree == Below(groups, RootId)
TestsInTree ==
  {c[2] : c \in {x \in UNION {Range(groups[g].children) : g \in GroupsInTree} : x[1] = "test"}}

\* label and description groupByExecutable resolves to
ExecLabel(e) == IF treeCfg.sameLabel THEN <<"exec", 1>> ELSE <<"exec", e>>
KeyLabel(key) == <<"key", key>>

\* a _reloadChildren call: where it is, its enumeration, the tuple and the
\* level it is at, the group it holds, its RunnableReloadResult, whether its
\* cancellation flag is set; before and alone are history, not program state
IdleTreeRl == [pc |-> "idle", e |-> 0, stderr |-> FALSE, entries |-> <<>>, i |-> 0,
               level |-> 0, group |-> NoObject, result |-> {}, cancel |-> FALSE,
               before |-> <<>>, alone |-> TRUE]

\* no processChunk call is looked at
IdleLoop == [pc |-> "none", blocks |-> 0, tail |-> "none", lead |-> FALSE,
             named |-> FALSE, invariant |-> 0, progress |-> TRUE, begun |-> 0,
             chunks |-> 0]

\* no _runProcess call is looked at
NoTimeout == 0

IdleTimer == [pc |-> "none", now |-> 0, startTime |-> 0,
              execRunningTimeout |-> NoTimeout, timers |-> {}, promise |-> 0,
              settled |-> FALSE, changes |-> 0, kills |-> 0, killedAt |-> 0,
              killedWith |-> NoTimeout, killedClosed |-> FALSE, stale |-> 0]

\* no selection is split
IdleSplit == [pc |-> "none", tests |-> <<>>, size |-> 0, maxTaskCount |-> 0,
              buckets |-> <<>>, subsets |-> <<>>]

\* no cache file is looked at
IdleCache == [pc |-> "none"]

\* no executable is classified
IdleFactory == [pc |-> "none"]

AuxStart ==
  /\ cache = IdleCache
  /\ factory = IdleFactory

StepStart ==
  /\ loop = IdleLoop
  /\ timer = IdleTimer
  /\ split = IdleSplit
  /\ AuxStart

\* RootSuite alone, nothing enumerated yet
TreeStart ==
  /\ groups = <<NewSuite(<<"root", 0>>, NoObject)>>
  /\ nodes = <<>>
  /\ testSet = [e \in Execs |-> {}]
  /\ treeRl = [k \in 1..MaxTreeReloads |-> IdleTreeRl]
  /\ treeLog = [e \in Execs |-> [how |-> "none", stderr |-> FALSE, entries |-> <<>>]]

(***************************************************************************)
(* The streaming parser of GoogleTestRunnable._handleProcess.  The output  *)
(* is a sequence of tokens: "B" is the text "[ RUN      ] Suite." and "E"  *)
(* a result bracket with the suite, "[       OK ] Suite." or               *)
(* "[  FAILED  ] Suite."; "n" is a line break; any other token is one      *)
(* character of a test name.  A test is known by its name, a sequence of   *)
(* characters.                                                             *)
(***************************************************************************)
MaxRan == 2                 \* tests the process runs
LoopGuard == 99999          \* let invariant = 99999

Names == {<<"a">>, <<"a", "b">>, <<"c", "d">>}
NoName == <<>>              \* undefined

\* what the executable prints around one test
Block(name) == <<"B">> \o name \o <<"n">> \o <<"E">> \o name \o <<"n">>

RECURSIVE Blocks(_)
Blocks(order) == IF order = <<>> THEN <<>> ELSE Block(Head(order)) \o Blocks(Tail(order))

\* the orders in which the process may run tests of S, each at most once
Orders(S) ==
  {o \in UNION {[1..n -> S] : n \in 0..MaxRan} :
     \A i, j \in 1..Len(o) : o[i] = o[j] => i = j}

\* the last index of the line that position from is on (from - 1 if the line
\* is empty): "." matches no line break and "$" matches before one or at
\* the end of the buffer
LineEnd(buf, from) ==
  LET breaks == {i \in from..Len(buf) : buf[i] = "n"}
  IN IF breaks = {} THEN Len(buf) ELSE First(breaks) - 1

\* buffer.match(testBeginRe): index of the first "[ RUN      ] " that starts
\* a line and has at least one character of a name after it; 0 is null
BeginMatch(buf) ==
  LET hits == {p \in 1..Len(buf) : /\ buf[p] = "B"
                                   /\ (p = 1 \/ buf[p - 1] = "n")
                                   /\ LineEnd(buf, p + 1) >= p + 1}
  IN IF hits = {} THEN 0 ELSE First(hits)

\* m[1] of that match
BegunName(buf, p) == SubSeq(buf, p + 1, LineEnd(buf, p + 1))

\* buffer.match(testEndRe): a result bracket followed by the current name;
\* whatever follows on the line belongs to the match
EndMatch(buf, name) ==
  LET hits == {q \in 1..Len(buf) : /\ buf[q] = "E"
                                   /\ q + Len(name) <= Len(buf)
                                   /\ SubSeq(buf, q + 1, q + Len(name)) = name}
  IN IF hits = {} THEN 0 ELSE First(hits)

EndOfMatch(buf, q, name) == LineEnd(buf, q + Len(name) + 1)

\* the route of a test, innermost group first; the tests whose names start
\* alike are in one group
RouteOf(name) == <<<<"group", name[1]>>, <<"group", "executable">>>>

\* Suite.sendCompletedEventIfNeeded / sendRunningEventIfNeeded, one batch
CompletedEvent(g) == <<"completed", g>>
RunningEvent(g) == <<"running", g>>

IndexIn(seq, x) ==
  LET hits == {i \in 1..Len(seq) : seq[i] = x}
  IN IF hits = {} THEN 0 ELSE First(hits)

\* AbstractRunnable.sendMinimalEventsIfNeeded(completed, running)
sendMinimalEventsIfNeeded(completed, running) ==
  IF completed = <<>>
  THEN [i \in 1..Len(running) |-> RunningEvent(running[Len(running) + 1 - i])]
  ELSE IF running = <<>>
  THEN [i \in 1..Len(completed) |-> CompletedEvent(completed[i])]
  ELSE IF completed[1] = running[1] THEN <<>>
  ELSE LET shared == {i \in 1..Len(completed) : IndexIn(running, completed[i]) # 0}
           completedIndex == IF shared = {} THEN Len(completed) + 1 ELSE First(shared)
           runningIndex == IF shared = {} THEN 0
                           ELSE IndexIn(running, completed[completedIndex])
       IN [i \in 1..(completedIndex - 1) |-> CompletedEvent(completed[i])] \o
          [i \in 1..Max(runningIndex - 1, 0) |-> RunningEvent(running[runningIndex - i])]

NewData == [stdoutAndErrBuffer |-> <<>>, currentTestCaseNameFull |-> NoName,
            currentChild |-> NoName, route |-> <<>>, unprocessedTestCases |-> <<>>,
            processedTestCases |-> <<>>]

\* this._findTest(v => v.testNameAsId == name): the name if a test has it
FindTest(known, name) == IF name \in known THEN name ELSE NoName

\* the branch of the loop body that looks for a begin marker
BeginBranch(P, known) ==
  LET buf == P.data.stdoutAndErrBuffer
      m == BeginMatch(buf)
      name == BegunName(buf, m)
      test == FindTest(known, name)
      cut == SubSeq(buf, m, Len(buf))
  IN IF m = 0 THEN [P EXCEPT !.returned = TRUE]
     ELSE IF test # NoName
     THEN [P EXCEPT !.data.currentTestCaseNameFull = name,
                    !.data.currentChild = test,
                    !.data.route = RouteOf(test),
                    !.data.stdoutAndErrBuffer = cut,
                    !.events = @ \o sendMinimalEventsIfNeeded(P.data.route, RouteOf(test))
                                 \o <<<<"started", test>>>>]
     ELSE [P EXCEPT !.data.currentTestCaseNameFull = name,
                    !.data.stdoutAndErrBuffer = cut]

\* the branch that looks for the end marker of the current name
EndBranch(P) ==
  LET buf == P.data.stdoutAndErrBuffer
      name == P.data.currentTestCaseNameFull
      m == EndMatch(buf, name)
      last == EndOfMatch(buf, m, name)
      testCase == SubSeq(buf, 1, last)
      rest == SubSeq(buf, last + 1, Len(buf))
      closed == [P EXCEPT !.data.currentTestCaseNameFull = NoName,
                          !.data.currentChild = NoName,
                          !.data.stdoutAndErrBuffer = rest]
  IN IF m = 0 THEN [P EXCEPT !.returned = TRUE]
     ELSE IF P.data.currentChild # NoName
     THEN [closed EXCEPT !.data.processedTestCases = Append(@, P.data.currentChild),
                         !.events = Append(@, <<"finished", P.data.currentChild>>)]
     ELSE [closed EXCEPT !.data.unprocessedTestCases = Append(@, testCase)]

\* do { ... } while (buffer.length > 0 && --invariant > 0)
RECURSIVE ChunkLoop(_, _, _)
ChunkLoop(P, known, invariant) ==
  LET Q == IF P.data.currentTestCaseNameFull = NoName THEN BeginBranch(P, known)
           ELSE EndBranch(P)
  IN IF Q.returned THEN Q
     ELSE IF Q.data.stdoutAndErrBuffer = <<>> THEN Q
     ELSE IF invariant - 1 > 0 THEN ChunkLoop(Q, known, invariant - 1)
     ELSE [Q EXCEPT !.stuck = TRUE]

\* processChunk: D is data, ev the events sent so far
processChunk(D, ev, known, isCancellationRequested, chunk) ==
  LET P == [data |-> [D EXCEPT !.stdoutAndErrBuffer = @ \o chunk], events |-> ev,
            returned |-> FALSE, stuck |-> FALSE]
  IN IF isCancellationRequested THEN P ELSE ChunkLoop(P, known, LoopGuard)

\* how often an event is in a sequence of events
Count(ev, x) == Cardinality({i \in 1..Len(ev) : ev[i] = x})

IdleProc == [pc |-> "none", timeout |-> FALSE, cancelled |-> FALSE, error |-> FALSE,
             open |-> NoName, openAtTimeout |-> NoName, reloads |-> 0, retried |-> 0,
             short |-> FALSE, refreshed |-> FALSE, enumerated |-> 0, sentAtCancel |-> 0,
             sentAtClose |-> 0]

\* no process is parsed
ParseStart ==
  /\ knownTests = {}
  /\ requested = {}
  /\ output = <<>>
  /\ pending = <<>>
  /\ data = NewData
  /\ events = <<>>
  /\ proc = IdleProc

(***************************************************************************)
(* Initial state: RootSuite.load has enumerated every executable once.     *)
(***************************************************************************)
\* runTask of the executables (the same for all of them): no tasks, tasks
\* around the whole run, or tasks around each executable
TaskProfiles ==
  { [s \in Stages |-> 0],
    [s \in Stages |-> IF s \in {"before", "after"} THEN MaxTasks ELSE 0],
    [s \in Stages |-> IF s \in {"beforeEach", "afterEach"} THEN MaxTasks ELSE 0] }

OrchStart ==
  /\ gPool = EmptyPool
  /\ ePool = [e \in Execs |-> EmptyPool]
  /\ counter = 0
  /\ tokenGen = 0
  /\ cancelled = {}
  /\ run = [r \in Runs |-> IdleRun]
  /\ er = [r \in Runs |-> [e \in Execs |-> IdleEr]]
  /\ rl = {}
  /\ tests = [e \in Execs |-> RealTests(e)]
  /\ lastReloadTime = [e \in Execs |-> 1]
  /\ tstate = [t \in AllTests |-> "Unset"]
  /\ mtime = [e \in Execs |-> 1]
  /\ binTests = [e \in Execs |-> RealTests(e)]
  /\ budget = MaxEnv

\* Spec follows the runs and _tests by identity; the tree's objects are
\* followed in TreeSpec and stay as constructed here
Init ==
  /\ cfg \in [global : 1..MaxGlobal, parallel : 1..MaxParallel,
              tasks : TaskProfiles]
  /\ OrchStart
  /\ treeCfg = [sameLabel |-> FALSE, depth |-> MaxDepth]
  /\ TreeStart
  /\ ParseStart
  /\ StepStart

Env == <<mtime, binTests>>

\* exit codes of executeTask; a non-zero one is a fault
ExitCodes == {"zero", "undefined"} \cup (IF budget > 0 THEN {"nonzero"} ELSE {})

Charge(isFault) ==
  budget' = IF isFault THEN budget - 1 ELSE budget


(***************************************************************************)
(* RootSuite.run                                                           *)
(***************************************************************************)
\* how many tests the run requests 1..r have selected in total
RECURSIVE SelectedUpTo(_)
SelectedUpTo(r) ==
  IF r = 0 THEN 0 ELSE Cardinality(run[r].targets) + SelectedUpTo(r - 1)

\* run(tests, cancellationToken) up to the first await that waits
StartRun(r) ==
  /\ run[r].pc = "idle"
  /\ \A q \in Runs : q < r => run[q].pc # "idle"
  /\ r > 1 => budget > 0
  /\ Charge(r > 1)
  /\ \E parentIn \in BOOLEAN, sel \in SUBSET (UNION {tests[e] : e \in Execs}) :
       /\ parentIn <=> sel = {}
       /\ LET gen == IF counter = 0 THEN tokenGen + 1 ELSE tokenGen
              S0 == [Cur EXCEPT !.counter = @ + 1,
                                !.run[r].sel = sel, !.run[r].parentIn = parentIn,
                                !.run[r].tok = gen]
              S1 == [S0 EXCEPT !.run[r].runnables = collectRunnables(S0, r),
                               !.run[r].targets = TargetsOf(S0, r)]
          IN /\ Cardinality(S1.run[r].targets) + SelectedUpTo(r - 1) <= MaxSel
             /\ tokenGen' = gen
             /\ IF RootTaskCount(S1, r, "before") = 0
                THEN Becomes(LaunchRunnables(S1, r))
                ELSE Becomes([S1 EXCEPT !.run[r].pc = "before", !.run[r].idx = 1])
  /\ UNCHANGED Env

\* a task of the before stage exits
BeforeTask(r) ==
  /\ run[r].pc = "before"
  /\ \E exit \in ExitCodes :
       /\ Charge(exit = "nonzero")
       /\ IF exit = "nonzero"
          THEN Becomes(StageFailed(Cur, r, "before"))
          ELSE IF run[r].idx < RootTaskCount(Cur, r, "before")
               THEN Becomes([Cur EXCEPT !.run[r].idx = @ + 1])
               ELSE Becomes(LaunchRunnables(Cur, r))
  /\ UNCHANGED <<Env, tokenGen>>

\* a task of the after stage exits
AfterTask(r) ==
  /\ run[r].pc = "after"
  /\ \E exit \in ExitCodes :
       /\ Charge(exit = "nonzero")
       /\ IF exit = "nonzero"
          THEN Becomes(StageFailed(Cur, r, "after"))
          ELSE IF run[r].idx < RootTaskCount(Cur, r, "after")
               THEN Becomes([Cur EXCEPT !.run[r].idx = @ + 1])
               ELSE Becomes(RunEnds(Cur, r))
  /\ UNCHANGED <<Env, tokenGen>>

\* cancellationToken.onCancellationRequested(() => this._cancellationTokenSource.cancel())
Cancel(r) ==
  /\ run[r].pc \notin {"idle", "returned"}
  /\ tokenGen \notin cancelled
  /\ budget > 0
  /\ budget' = budget - 1
  /\ cancelled' = cancelled \cup {tokenGen}
  /\ UNCHANGED <<cfg, gPool, ePool, counter, tokenGen, run, er, rl, tests,
                 lastReloadTime, tstate, mtime, binTests, treeVars, stepVars, parseVars>>

(***************************************************************************)
(* AbstractRunnable.run and runTasks                                       *)
(***************************************************************************)
\* a task of the beforeEach stage exits
BeforeEachTask(r, e) ==
  /\ er[r][e].pc = "beforeEach"
  /\ Holds(gPool, U("be", r, e, 0))
  /\ \E exit \in ExitCodes :
       /\ Charge(exit = "nonzero")
       /\ LET Rel == [Cur EXCEPT !.gPool = releaseTask(@, U("be", r, e, 0))]
          IN IF exit = "nonzero"
             THEN Becomes(BeforeEachFailed(Rel, r, e))
             ELSE IF er[r][e].idx < cfg.tasks["beforeEach"]
                  THEN Becomes([Cur EXCEPT !.er[r][e].idx = @ + 1])
                  ELSE Becomes(ReloadFromRun([Rel EXCEPT !.er[r][e].beOk = TRUE], r, e))
  /\ UNCHANGED <<Env, tokenGen>>

\* a task of the afterEach stage exits
AfterEachTask(r, e) ==
  /\ er[r][e].pc = "afterEach"
  /\ Holds(gPool, U("ae", r, e, 0))
  /\ \E exit \in ExitCodes :
       /\ Charge(exit = "nonzero")
       /\ LET Rel == [Cur EXCEPT !.gPool = releaseTask(@, U("ae", r, e, 0))]
          IN IF exit = "nonzero"
             THEN Becomes(AfterEachFailed(Rel, r, e))
             ELSE IF er[r][e].idx < cfg.tasks["afterEach"]
                  THEN Becomes([Cur EXCEPT !.er[r][e].idx = @ + 1])
                  ELSE Becomes(ExecEnd(Rel, r, e, "done"))
  /\ UNCHANGED <<Env, tokenGen>>

(***************************************************************************)
(* AbstractRunnable._runInner and _runProcess                              *)
(***************************************************************************)
BatchIds == {<<r, e, b>> \in Runs \X Execs \X (1..(2 * TestsPerExec)) :
               b <= Len(er[r][e].batches)}

BatchPc(r, e, b) == er[r][e].batches[b].pc

SetBatch(S, r, e, b, pc) == [S EXCEPT !.er[r][e].batches[b].pc = pc]

SpawnResults == {"ok"} \cup (IF budget > 0 THEN {"busy", "error"} ELSE {})

\* the task given to parallelizationPool.scheduleTask starts
InnerStart(r, e, b) ==
  /\ <<r, e, b>> \in BatchIds
  /\ BatchPc(r, e, b) = "waitExec"
  /\ Holds(ePool[e], U("in", r, e, b))
  /\ LET childrenToRun == er[r][e].batches[b].tests
         runnableDescendant == SelectSeq(childrenToRun, LAMBDA t : ~HasStaticEvent(t))
         S1 == sendStaticEvents(Cur, Range(childrenToRun))
     IN IF Len(runnableDescendant) = 0
        THEN Becomes(ChainContinue(
                 SetBatch([S1 EXCEPT !.ePool[e] = releaseTask(@, U("in", r, e, b))],
                          r, e, b, "done"), r, e, b))
        ELSE Becomes([S1 EXCEPT
                 !.gPool = scheduleTask(@, cfg.global, U("p", r, e, b)),
                 !.er[r][e].batches[b].tests = runnableDescendant,
                 !.er[r][e].batches[b].pc = "waitGlobal"])
  /\ UNCHANGED <<Env, tokenGen, budget>>

\* runIfNotCancelled in its process-wide slot: cancelled, or spawner.spawn settles
ProcStart(r, e, b) ==
  /\ <<r, e, b>> \in BatchIds
  /\ BatchPc(r, e, b) = "waitGlobal"
  /\ Holds(gPool, U("p", r, e, b))
  /\ LET RelG == [Cur EXCEPT !.gPool = releaseTask(@, U("p", r, e, b))]
         RelBoth == [RelG EXCEPT !.ePool[e] = releaseTask(@, U("in", r, e, b))]
     IN IF IsCancelled(Cur, run[r].tok)
        THEN /\ Becomes(ChainContinue(SetBatch(RelBoth, r, e, b, "done"), r, e, b))
             /\ UNCHANGED budget
        ELSE \E res \in SpawnResults :
               /\ Charge(res # "ok")
               /\ CASE res = "ok" -> Becomes(SetBatch(Cur, r, e, b, "running"))
                    [] res = "busy" -> Becomes(SetBatch(RelG, r, e, b, "busyTimer"))
                    [] OTHER -> Becomes(ChainFail(SetBatch(RelBoth, r, e, b, "failed"), r, e, b))
  /\ UNCHANGED <<Env, tokenGen>>

\* BusyTimerFires as it would be if the timer callback called
\* runIfNotCancelled() itself instead of taskPool.scheduleTask(runIfNotCancelled):
\* the process is spawned outside the process-wide pool
BusyTimerSpawnsDirectly(r, e, b) ==
  /\ <<r, e, b>> \in BatchIds
  /\ BatchPc(r, e, b) = "busyTimer"
  /\ Becomes(ChainContinue(
         SetBatch([Cur EXCEPT !.ePool[e] = releaseTask(@, U("in", r, e, b))],
                  r, e, b, "reRunning"), r, e, b))
  /\ UNCHANGED <<Env, tokenGen, budget>>

\* the 2 second timer after a spawn-busy error fires: the batch is given to
\* the process-wide pool again and the promise of _runInner resolves
BusyTimerFires(r, e, b) ==
  /\ <<r, e, b>> \in BatchIds
  /\ BatchPc(r, e, b) = "busyTimer"
  /\ Becomes(ChainContinue(
         SetBatch([Cur EXCEPT !.gPool = scheduleTask(@, cfg.global, U("p2", r, e, b)),
                              !.ePool[e] = releaseTask(@, U("in", r, e, b))],
                  r, e, b, "reWait"), r, e, b))
  /\ UNCHANGED <<Env, tokenGen, budget>>

\* runIfNotCancelled of the rescheduled batch; nothing handles its rejection
RescheduledStart(r, e, b) ==
  /\ <<r, e, b>> \in BatchIds
  /\ BatchPc(r, e, b) = "reWait"
  /\ Holds(gPool, U("p2", r, e, b))
  /\ LET RelG == [Cur EXCEPT !.gPool = releaseTask(@, U("p2", r, e, b))]
     IN IF IsCancelled(Cur, run[r].tok)
        THEN /\ Becomes(SetBatch(RelG, r, e, b, "done"))
             /\ UNCHANGED budget
        ELSE \E res \in SpawnResults :
               /\ Charge(res # "ok")
               /\ IF res = "ok"
                  THEN Becomes(SetBatch(Cur, r, e, b, "reRunning"))
                  ELSE Becomes(SetBatch(RelG, r, e, b, "done"))
  /\ UNCHANGED <<Env, tokenGen>>

\* ProcClose as it would be if the unit of _runProcess kept its process-wide
\* slot after the process closed
ProcCloseKeepsSlot(r, e, b) ==
  /\ <<r, e, b>> \in BatchIds
  /\ BatchPc(r, e, b) \in {"running", "reRunning"}
  /\ IF BatchPc(r, e, b) = "running"
     THEN Becomes(ChainContinue(
              SetBatch([Cur EXCEPT !.ePool[e] = releaseTask(@, U("in", r, e, b))],
                       r, e, b, "done"), r, e, b))
     ELSE Becomes(SetBatch(Cur, r, e, b, "done"))
  /\ UNCHANGED <<Env, tokenGen, budget>>

\* GoogleTestRunnable._handleProcess: the process closed.  processed are the
\* tests whose payload was parsed, orphans says whether a payload matched no
\* TestNode, error whether the ProcessResult carries an error
ProcClose(r, e, b) ==
  /\ <<r, e, b>> \in BatchIds
  /\ BatchPc(r, e, b) \in {"running", "reRunning"}
  /\ \E processed \in SUBSET Range(er[r][e].batches[b].tests),
        orphans \in BOOLEAN, error \in BOOLEAN, timeout \in BOOLEAN :
       LET childrenToRun == er[r][e].batches[b].tests
           isCancelled == IsCancelled(Cur, run[r].tok)
           isTestRemoved == /\ ~timeout
                            /\ ~isCancelled
                            /\ ~error
                            /\ Cardinality(processed) < Len(childrenToRun)
           S1 == Cur
           S2 == IF (orphans \/ isTestRemoved) /\ ~isCancelled
                 THEN [S1 EXCEPT
                        !.gPool = scheduleTask(@, cfg.global, U("rlproc", r, e, b)),
                        !.rl = @ \cup {NewReload(S1, U("rlproc", r, e, b), e, run[r].tok)}]
                 ELSE S1
       IN IF BatchPc(r, e, b) = "running"
          THEN Becomes(ChainContinue(
                   SetBatch([S2 EXCEPT !.gPool = releaseTask(@, U("p", r, e, b)),
                                       !.ePool[e] = releaseTask(@, U("in", r, e, b))],
                            r, e, b, "done"), r, e, b))
          ELSE Becomes(SetBatch([S2 EXCEPT !.gPool = releaseTask(@, U("p2", r, e, b))],
                                r, e, b, "done"))
  /\ UNCHANGED <<Env, tokenGen, budget>>

(***************************************************************************)
(* AbstractRunnable.reloadTests                                            *)
(***************************************************************************)
\* reloadTests called from outside a run (file watcher, reload command)
ExternalReload(e) ==
  /\ budget > 0
  /\ budget' = budget - 1
  /\ Becomes([Cur EXCEPT
         !.gPool = scheduleTask(@, cfg.global, U("rlext", 0, e, budget)),
         !.rl = @ \cup {NewReload(Cur, U("rlext", 0, e, budget), e, 0)}])
  /\ UNCHANGED <<Env, tokenGen>>

\* `await this._getModiTime()` settles: 0 stands for undefined (fs.stat failed)
ReloadStat(u) ==
  /\ u.pc = "stat"
  /\ Holds(gPool, u.id)
  /\ \E lastModiTime \in {mtime[u.e]} \cup (IF budget > 0 THEN {0} ELSE {}) :
       /\ Charge(lastModiTime = 0)
       /\ IF lastReloadTime[u.e] = 0 \/ lastModiTime = 0
             \/ lastReloadTime[u.e] # lastModiTime
          THEN Becomes(ReplaceRl([Cur EXCEPT !.lastReloadTime[u.e] = lastModiTime],
                                 u, [u EXCEPT !.pc = "enum"]))
          ELSE Becomes(ReloadResolved(Cur, u))
  /\ UNCHANGED <<Env, tokenGen>>

\* _reloadChildren: the enumeration settles
ReloadEnumerated(u) ==
  /\ u.pc = "enum"
  /\ \E res \in {"ok"} \cup (IF budget > 0 THEN {"stderr", "throw"} ELSE {}) :
       /\ Charge(res # "ok")
       /\ CASE res = "ok" ->
                 IF IsCancelled(Cur, u.tok)
                 THEN Becomes(ReloadApply(Cur, u, {}))
                 ELSE Becomes(ReplaceRl(Cur, u,
                          [u EXCEPT !.pc = "apply", !.todo = InOrder(binTests[u.e])]))
            [] res = "stderr" ->
                 Becomes(ReplaceRl(Cur, u,
                     [u EXCEPT !.pc = "apply", !.todo = <<ErrTest(u.e)>>]))
            [] OTHER -> Becomes(ReloadRejected(Cur, u))
  /\ UNCHANGED <<Env, tokenGen>>

\* _createSubtreeAndAddTest for the next enumerated test settles; after the
\* last one, or when cancellation is seen at the head of the loop, the reload
\* result is applied
ReloadTuple(u) ==
  /\ u.pc = "apply"
  /\ LET t == Head(u.todo)
         v == [u EXCEPT !.todo = Tail(@), !.result = @ \cup {t}]
         S1 == ReplaceRl([Cur EXCEPT
                   !.tests[u.e] = @ \cup {t},
                   !.tstate[t] = IF t \in tests[u.e] THEN @
                                 ELSE IF Skipped(t) THEN "Skipped" ELSE "Unset"],
                 u, v)
     IN IF v.todo = <<>> \/ IsCancelled(Cur, u.tok)
        THEN Becomes(ReloadApply(S1, v, v.result))
        ELSE Becomes(S1)
  /\ UNCHANGED <<Env, tokenGen, budget>>

(***************************************************************************)
(* Environment                                                             *)
(***************************************************************************)
\* the executable is rebuilt: new modification time, new set of tests
Rebuild(e) ==
  /\ budget > 0
  /\ budget' = budget - 1
  /\ mtime' = [mtime EXCEPT ![e] = @ + 1]
  /\ \E ts \in (SUBSET RealTests(e)) \ {{}} : binTests' = [binTests EXCEPT ![e] = ts]
  /\ UNCHANGED <<cfg, gPool, ePool, counter, tokenGen, cancelled, run, er, rl,
                 tests, lastReloadTime, tstate, treeVars, stepVars, parseVars>>

Next ==
  \/ \E r \in Runs : StartRun(r)
  \/ \E r \in Runs : BeforeTask(r)
  \/ \E r \in Runs : AfterTask(r)
  \/ \E r \in Runs : Cancel(r)
  \/ \E r \in Runs, e \in Execs : BeforeEachTask(r, e)
  \/ \E r \in Runs, e \in Execs : AfterEachTask(r, e)
  \/ \E id \in BatchIds : InnerStart(id[1], id[2], id[3])
  \/ \E id \in BatchIds : ProcStart(id[1], id[2], id[3])
  \/ \E id \in BatchIds : BusyTimerFires(id[1], id[2], id[3])
  \/ \E id \in BatchIds : RescheduledStart(id[1], id[2], id[3])
  \/ \E id \in BatchIds : ProcClose(id[1], id[2], id[3])
  \/ \E e \in Execs : ExternalReload(e)
  \/ \E u \in rl : ReloadStat(u)
  \/ \E u \in rl : ReloadEnumerated(u)
  \/ \E u \in rl : ReloadTuple(u)
  \/ \E e \in Execs : Rebuild(e)

Spec == Init /\ [][Next]_vars

(***************************************************************************)
(* Observables the properties below are stated over.                       *)
(***************************************************************************)
\* the batches whose process was spawned and has not closed yet: each has
\* one RunningRunnable (RunningProcessContext)
LiveBatches == {id \in BatchIds : BatchPc(id[1], id[2], id[3]) \in {"running", "reRunning"}}

LiveProcs(e) == {id \in LiveBatches : id[2] = e}

\* RunningRunnable.childrenToRun of a live batch
RequestedTests(id) == Range(er[id[1]][id[2]].batches[id[3]].tests)

\* the process-wide unit inside which the process of a live batch was spawned
ProcUnit(id) ==
  U(IF BatchPc(id[1], id[2], id[3]) = "running" THEN "p" ELSE "p2", id[1], id[2], id[3])

\* the reloadTests units that are inside _reloadChildren
Enumerating(e) == {u \in rl : u.e = e /\ u.pc \in {"enum", "apply"}}

\* everything that executes as a unit of the process-wide pool
ExecutingUnits ==
  gPool.running \cup {ProcUnit(id) : id \in LiveBatches}
                \cup {u.id : u \in UNION {Enumerating(e) : e \in Execs}}

(***************************************************************************)
(* C1..C10: pools, auxiliary tasks, reloads, process contexts              *)
(***************************************************************************)

\* C1: at no time are more than L (the per-executable parallelization limit)
\* processes of one executable alive, batches rescheduled after a spawn-busy
\* error included.
C1_PerExecutableLimit ==
  \A e \in Execs : Cardinality(LiveProcs(e)) <= cfg.parallel

C3_TaskFailureErrorsEveryTest ==
  /\ \A r \in Runs : run[r].failed # "none" =>
        \A t \in run[r].targets : tstate[t] = "Errored"
  /\ \A r \in Runs, e \in Execs : er[r][e].failed # "none" =>
        \A t \in er[r][e].targets : tstate[t] = "Errored"

\* a step of the program itself (the event loop runs a continuation that is
\* ready, a started task or process exits), as opposed to a new request or
\* an event of the environment
ProgramStep ==
  \/ \E r \in Runs : BeforeTask(r) \/ AfterTask(r)
  \/ \E r \in Runs, e \in Execs : BeforeEachTask(r, e) \/ AfterEachTask(r, e)
  \/ \E id \in BatchIds :
        \/ InnerStart(id[1], id[2], id[3])
        \/ ProcStart(id[1], id[2], id[3])
        \/ BusyTimerFires(id[1], id[2], id[3])
        \/ RescheduledStart(id[1], id[2], id[3])
        \/ ProcClose(id[1], id[2], id[3])
  \/ \E u \in rl : ReloadStat(u) \/ ReloadEnumerated(u) \/ ReloadTuple(u)

\* the run requests r's part of a failed before stage: nothing of the run
\* was started and the finished event was sent
BeforeFailureStops(r) ==
  /\ run[r].pc \in {"finished", "returned"}
  /\ run[r].finishedSent = 1
  /\ \A e \in Execs : er[r][e] = IdleEr
  /\ \A u \in rl : ~(u.id[1] \in {"rlrun", "rlproc"} /\ u.id[2] = r)

\* a failed beforeEach stage of executable e in run r: the executable's run
\* returned without a reload and without a batch
BeforeEachFailureStops(r, e) ==
  /\ er[r][e].pc = "done"
  /\ ~er[r][e].reloadCalled
  /\ er[r][e].batches = <<>>
  /\ \A u \in rl : ~(u.id[1] \in {"rlrun", "rlproc"} /\ u.id[2] = r /\ u.e = e)

\* C4: after a before (beforeEach) task exited non-zero no further task of the
\* stage runs, no reload is started and no process is spawned for the run
\* (the executable), and the run sends its finished event: after a failed
\* before stage at once, after a failed beforeEach stage the program cannot
\* come to rest before the finished event is sent.
C4_BeforeFailureAborts ==
  /\ [](\A r \in Runs : run[r].failed = "before" => BeforeFailureStops(r))
  /\ [](\A r \in Runs, e \in Execs :
          er[r][e].failed = "beforeEach" => BeforeEachFailureStops(r, e))
  /\ [][ /\ \A r \in Runs : run[r].failed = "before" => run'[r].idx = run[r].idx
         /\ \A r \in Runs, e \in Execs :
              er[r][e].failed = "beforeEach" => er'[r][e].idx = er[r][e].idx ]_vars
  /\ [](\A r \in Runs : (\E e \in Execs : er[r][e].failed = "beforeEach") =>
            run[r].finishedSent = 1 \/ ENABLED ProgramStep)

\* C4 witness: the first beforeEach task of one executable failed, its second
\* task never ran, the other executable of the run spawned its process, and
\* the run sent its finished event
C4_Witness ==
  \E r \in Runs, e \in Execs, x \in Execs :
    /\ er[r][e].failed = "beforeEach"
    /\ er[r][e].idx = 1
    /\ cfg.tasks["beforeEach"] > 1
    /\ x # e
    /\ er[r][x].batches # <<>>
    /\ run[r].finishedSent = 1

\* the batches of run r (on executable e) whose process is alive or still
\* to be spawned
Unfinished(r, e) ==
  {id \in BatchIds :
     /\ id[1] = r /\ id[2] = e
     /\ BatchPc(r, e, id[3]) \in {"waitExec", "waitGlobal", "busyTimer", "reWait",
                                 "running", "reRunning"}}

\* C5: while a task of the after stage of a run executes, no process of that
\* run is alive or waiting to be spawned; the same for a task of the afterEach
\* stage and the batches of its executable in that run.
C5_AfterStageAfterAllProcesses ==
  /\ \A r \in Runs : run[r].pc = "after" => \A e \in Execs : Unfinished(r, e) = {}
  /\ \A r \in Runs, e \in Execs :
       (er[r][e].pc = "afterEach" /\ Holds(gPool, U("ae", r, e, 0))) =>
          Unfinished(r, e) = {}

\* C6: when the run of an executable whose beforeEach stage succeeded has
\* settled, its afterEach stage was executed exactly once; when a run whose
\* before stage succeeded has finished, its after stage was executed exactly
\* once.
C6_AfterStageExactlyOnce ==
  /\ \A r \in Runs, e \in Execs :
       (er[r][e].beOk /\ er[r][e].pc \in {"done", "rejected"}) => er[r][e].aeRuns = 1
  /\ \A r \in Runs :
       (/\ run[r].pc \in {"finished", "returned"}
        /\ run[r].failed # "before"
        /\ RootTaskCount(Cur, r, "after") > 0) => run[r].afterRuns = 1

\* C7: the requested-test lists of two live processes never share a TestNode.
C7_OneContextPerTest ==
  \A id1 \in LiveBatches, id2 \in LiveBatches :
    id1 # id2 => RequestedTests(id1) \cap RequestedTests(id2) = {}

\* C8: no step removes from the tree a TestNode that a live process has in
\* its requested-test list.
C8_ReloadKeepsRunningTests ==
  [][\A id \in LiveBatches : \A t \in RequestedTests(id) :
        t \in tests[id[2]] => t \in tests'[id[2]]]_vars

\* C9: at most one enumeration (_reloadChildren) of an executable executes at
\* any time.
C9_OneEnumerationPerExecutable ==
  \A e \in Execs : Cardinality(Enumerating(e)) <= 1

\* C10: a reloadTests request made while another reload of the executable was
\* inside _reloadChildren does not complete while that reload is still in
\* flight.
C10_ReloadWaitsForInFlight ==
  [][\A u \in rl : (\A w \in rl' : w.id # u.id) =>
        \A v \in rl' : v.id \notin u.behind]_vars

(***************************************************************************)
(* Building the tree: _reloadChildren, _createSubtreeAndAddTest and the    *)
(* removal at the end of reloadTests.  One action per stretch of code      *)
(* between two awaits.                                                     *)
(***************************************************************************)
\* what spawnAsync and the list parser give: stderr, or the tuples in order
Enumerations ==
  [stderr : {TRUE}, entries : {<<>>}] \cup
  [stderr : {FALSE}, entries : UNION {[1..n -> Tuples] : n \in 0..MaxEntries}]

TreeActive == {k \in 1..MaxTreeReloads : treeRl[k].pc \notin {"idle", "done", "rejected"}}

\* levels _createSubtreeAndAddTest walks: _createAndAddError groups by
\* executable only
DepthOf(u) == IF u.stderr THEN 1 ELSE treeCfg.depth

EntryIdent(u) == IF u.stderr THEN ErrorIdent ELSE u.entries[u.i][1]

LevelLabel(u) == IF u.level = 1 THEN ExecLabel(u.e) ELSE KeyLabel(u.entries[u.i][2])

\* a call that returned or threw
Settled(u, pc) == [IdleTreeRl EXCEPT !.pc = pc, !.e = u.e]

\* _reloadChildren has the enumeration of executable e
TreeReloadStart(k, e) ==
  /\ treeRl[k].pc = "idle"
  /\ \A j \in 1..(k - 1) : treeRl[j].pc # "idle"
  /\ \A d \in 1..(e - 1) : \E j \in 1..(k - 1) : treeRl[j].e = d   \* numbered as they come
  /\ \E en \in Enumerations :
       treeRl' = [j \in 1..MaxTreeReloads |->
                    IF j = k
                    THEN [pc |-> IF en.stderr \/ en.entries # <<>> THEN "group" ELSE "remove",
                          e |-> e, stderr |-> en.stderr, entries |-> en.entries, i |-> 1,
                          level |-> 1, group |-> RootId, result |-> {}, cancel |-> FALSE,
                          before |-> TreeCur, alone |-> TreeActive = {}]
                    ELSE IF j \in TreeActive THEN [treeRl[j] EXCEPT !.alone = FALSE]
                    ELSE treeRl[j]]
  /\ UNCHANGED <<orchVars, parseVars, stepVars, treeCfg, groups, nodes, testSet, treeLog>>

\* one grouping level: the cancellation check that precedes a tuple (the flag
\* may have been set at any time before), then
\* _resolveAndGetOrCreateChildSuite resumes after its awaits
TreeGroupStep(k) ==
  LET u == treeRl[k]
  IN /\ u.pc = "group"
     /\ \E isCancellationRequested \in BOOLEAN :
          IF isCancellationRequested
          THEN /\ u.level = 1 /\ ~u.stderr
               /\ treeRl' = [treeRl EXCEPT ![k].pc = "remove", ![k].cancel = TRUE]
               /\ UNCHANGED <<groups, nodes, testSet>>
          ELSE LET r == getOrCreateChildSuite(TreeCur, u.group, LevelLabel(u))
               IN /\ TreeBecomes(r.T)
                  /\ treeRl' = [treeRl EXCEPT
                                  ![k].group = r.suite,
                                  ![k].level = IF u.level = DepthOf(u) THEN 1 ELSE @ + 1,
                                  ![k].pc = IF u.level = DepthOf(u) THEN "test" ELSE "group"]
     /\ UNCHANGED <<orchVars, parseVars, stepVars, treeCfg, treeLog>>

\* the end of _createSubtreeAndAddTest and reloadResult.add; updateTest of
\* an error node throws, it has no update method
TreeTestStep(k) ==
  LET u == treeRl[k]
      old == FindChildTest(TreeCur, u.group, EntryIdent(u))
      made == addTest(TreeCur, u.group, u.e, EntryIdent(u), u.stderr)
      last == u.stderr \/ u.i = Len(u.entries)
      goesOn(n) == [u EXCEPT !.result = @ \cup {n}, !.group = RootId,
                             !.i = IF last THEN @ ELSE @ + 1,
                             !.pc = IF last THEN "remove" ELSE "group"]
  IN /\ u.pc = "test"
     /\ IF old = NoObject
        THEN /\ TreeBecomes(made.T)
             /\ treeRl' = [treeRl EXCEPT ![k] = goesOn(made.test)]
             /\ UNCHANGED treeLog
        ELSE IF nodes[old].err /\ ~u.stderr
        THEN /\ treeRl' = [treeRl EXCEPT ![k] = Settled(u, "rejected")]
             /\ treeLog' = [treeLog EXCEPT ![u.e] = [how |-> "rejected", stderr |-> u.stderr,
                                                   entries |-> u.entries]]
             /\ UNCHANGED <<groups, nodes, testSet>>
        ELSE /\ treeRl' = [treeRl EXCEPT ![k] = goesOn(old)]
             /\ UNCHANGED <<groups, nodes, testSet, treeLog>>
     /\ UNCHANGED <<orchVars, parseVars, stepVars, treeCfg>>

\* reloadTests after _reloadChildren: what is not in the result is removed
TreeRemoveStep(k) ==
  LET u == treeRl[k]
  IN /\ u.pc = "remove"
     /\ TreeBecomes(RemoveEach(TreeCur, u.e, testSet[u.e] \ u.result))
     /\ treeRl' = [treeRl EXCEPT ![k] = Settled(u, "done")]
     /\ treeLog' = [treeLog EXCEPT ![u.e] = [how |-> IF u.cancel THEN "cancelled" ELSE "done",
                                              stderr |-> u.stderr,
                                              entries |-> u.entries]]
     /\ UNCHANGED <<orchVars, parseVars, stepVars, treeCfg>>

TreeInit ==
  /\ cfg = [global |-> 1, parallel |-> 1, tasks |-> [s \in Stages |-> 0]]
  /\ OrchStart
  /\ treeCfg \in [sameLabel : BOOLEAN, depth : 1..MaxDepth]
  /\ TreeStart
  /\ ParseStart
  /\ StepStart

TreeNext ==
  \/ \E k \in 1..MaxTreeReloads, e \in Execs : TreeReloadStart(k, e)
  \/ \E k \in 1..MaxTreeReloads : TreeGroupStep(k)
  \/ \E k \in 1..MaxTreeReloads : TreeTestStep(k)
  \/ \E k \in 1..MaxTreeReloads : TreeRemoveStep(k)

TreeSpec == TreeInit /\ [][TreeNext]_vars

(***************************************************************************)
(* Claims about the tree                                                   *)
(***************************************************************************)
\* reload k completes in this step
TreeFinishes(k) == treeRl[k].pc = "remove" /\ treeRl'[k].pc = "done"

\* reload k enumerated what the previous completed reload of its executable did
SameAsPrevious(k) ==
  treeLog[treeRl[k].e] =
    [how |-> "done", stderr |-> treeRl[k].stderr, entries |-> treeRl[k].entries]

\* C11: a reload whose enumeration equals that of the previous reload of the
\* executable leaves the groups, the order of their children, the TestNode
\* objects and the test set exactly as they were before it (checked for reloads
\* no other reload overlapped with)
C11_ReloadIdempotent ==
  [][\A k \in 1..MaxTreeReloads :
       (TreeFinishes(k) /\ treeRl[k].alone /\ SameAsPrevious(k))
         => /\ groups' = treeRl[k].before.groups
            /\ nodes' = treeRl[k].before.nodes
            /\ testSet' = treeRl[k].before.testSet]_vars

\* the enumeration of reload u reports the identity of TestNode t
Reported(u, t) ==
  IF u.stderr THEN nodes[t].err
  ELSE \E i \in 1..Len(u.entries) : u.entries[i][1] = nodes[t].ident

\* TestNode t hangs in no group at all
Detached(G, t) == \A g \in 1..Len(G) : <<"test", t>> \notin Range(G[g].children)

\* C12: when a reload completes, every TestNode of the executable that its
\* enumeration does not report is gone from the tree and from the test set, no
\* group the removals emptied stays in the tree, and removing a node that is
\* already removed changes nothing
C12_RemovedTestsAndEmptyGroupsGone ==
  /\ [][\A k \in 1..MaxTreeReloads : TreeFinishes(k) =>
          /\ \A t \in testSet[treeRl[k].e] : ~Reported(treeRl[k], t) =>
                t \notin testSet'[treeRl[k].e] /\ Detached(groups', t)
          /\ \A g \in Below(groups', RootId) \ {RootId} :
                groups[g].children # <<>> => groups'[g].children # <<>>]_vars
  /\ [](\A t \in 1..Len(nodes) :
          Detached(groups, t) => removeWithLeafAscendants(TreeCur, t) = TreeCur)

\* a reload has removed a TestNode and pruned its group, another group stays
C12_Witness ==
  \E t \in 1..Len(nodes), g \in 1..Len(groups) :
     /\ Detached(groups, t)
     /\ nodes[t].parent = g /\ g \notin GroupsInTree
     /\ t \notin testSet[nodes[t].e]
     /\ Cardinality(GroupsInTree) > 1
     /\ \E k \in 1..MaxTreeReloads : treeRl[k].pc = "done"

\* C13: no group has two child groups with the same (label, description),
\* also while reloads of different executables or of the same one interleave
\* their grouping steps
C13_NoDuplicateSiblingGroups ==
  \A g \in 1..Len(groups) :
    \A i, j \in 1..Len(groups[g].children) :
       LET ci == groups[g].children[i]
           cj == groups[g].children[j]
       IN (i # j /\ ci[1] = "suite" /\ cj[1] = "suite")
            => groups[ci[2]].label # groups[cj[2]].label

\* two reloads in flight were given the same group by their grouping steps
C13_Witness ==
  \E k1, k2 \in TreeActive :
     /\ k1 # k2
     /\ treeRl[k1].group = treeRl[k2].group
     /\ treeRl[k1].group # RootId
     /\ treeRl[k1].pc = "test" /\ treeRl[k2].pc = "test"

\* no reload of executable e is in flight
Quiet(e) == \A k \in TreeActive : treeRl[k].e # e

\* C14: once the reloads of an executable have completed, no two TestNodes of
\* its test set have the same identity, and a reload that ran alone and was not
\* cancelled keeps, for every identity it reports again, the TestNode object
\* that was known before it
C14_IdentityUniqueAndKept ==
  /\ [](\A e \in Execs : Quiet(e) =>
          \A t1, t2 \in testSet[e] : nodes[t1].ident = nodes[t2].ident => t1 = t2)
  /\ [][\A k \in 1..MaxTreeReloads :
          (TreeFinishes(k) /\ treeRl[k].alone /\ ~treeRl[k].cancel) =>
             \A t \in treeRl[k].before.testSet[treeRl[k].e] :
                Reported(treeRl[k], t) => t \in testSet'[treeRl[k].e]]_vars

\* the error tests of executable e in a test set
ErrorTests(N, S, e) == {t \in S[e] : N[t].err}

\* C15: a reload whose enumeration failed (stderr) leaves every TestNode known
\* before it in the tree and in the test set, and the executable has exactly
\* one synthesized error TestNode afterwards
C15_FailedEnumerationKeepsTree ==
  [][\A k \in 1..MaxTreeReloads :
       (TreeFinishes(k) /\ treeRl[k].stderr /\ treeRl[k].alone) =>
          /\ \A t \in treeRl[k].before.testSet[treeRl[k].e] :
                t \in testSet'[treeRl[k].e] /\ ~Detached(groups', t)
          /\ Cardinality(ErrorTests(nodes', testSet', treeRl[k].e)) = 1]_vars

(***************************************************************************)
(* One process and its parser: the 'data' events, the timeout of           *)
(* _runProcess, cancellation, the close event with the exit handling, and  *)
(* the reload the exit handling may ask for.                               *)
(***************************************************************************)
MaxRebuilds == 1            \* how often the executable is rebuilt meanwhile
ParsedExec == 1             \* the executable the process belongs to

\* the orchestrator's variables the parser's reload does not touch
orchFixed == <<cfg, gPool, ePool, counter, tokenGen, cancelled, run, er, rl, tests,
               tstate, binTests, budget>>

\* the condition under which reloadTests enumerates; 0 is undefined
ReloadNeeded(lastModiTime) ==
  \/ lastReloadTime[ParsedExec] = 0
  \/ lastModiTime = 0
  \/ lastReloadTime[ParsedExec] # lastModiTime

ParseInit ==
  /\ cfg = [global |-> 1, parallel |-> 1, tasks |-> [s \in Stages |-> 0]]
  /\ OrchStart
  /\ treeCfg = [sameLabel |-> FALSE, depth |-> MaxDepth]
  /\ TreeStart
  /\ StepStart
  /\ knownTests \in SUBSET Names
  /\ requested \in (SUBSET knownTests) \ {{}}
  /\ output \in {Blocks(o) : o \in Orders(requested)}
  /\ pending = output
  /\ data = NewData
  /\ events = <<>>
  /\ proc = [IdleProc EXCEPT !.pc = "running"]

\* process.stdout.on('data', chunk => processChunk(chunk)) with the next n tokens
Deliver(n) ==
  /\ proc.pc = "running"
  /\ n \in 1..Len(pending)
  /\ LET P == processChunk(data, events, knownTests, proc.cancelled, SubSeq(pending, 1, n))
     IN /\ data' = P.data
        /\ events' = P.events
        /\ proc' = [proc EXCEPT !.pc = IF P.stuck THEN "stuck" ELSE @]
  /\ pending' = SubSeq(pending, n + 1, Len(pending))
  /\ UNCHANGED <<orchVars, treeVars, stepVars, knownTests, requested, output>>

\* setTimeout(resolve, left, 'timeout') fires: runInfo.killProcess(timeout)
TimeoutFires ==
  /\ proc.pc = "running"
  /\ ~proc.timeout
  /\ proc' = [proc EXCEPT !.timeout = TRUE,
                          !.openAtTimeout = IF data.currentTestCaseNameFull = NoName
                                            THEN NoName ELSE data.currentChild]
  /\ UNCHANGED <<orchVars, treeVars, stepVars, knownTests, requested, output, pending, data, events>>

\* the run's cancellation token is cancelled
CancelProcess ==
  /\ proc.pc = "running"
  /\ ~proc.cancelled
  /\ proc' = [proc EXCEPT !.cancelled = TRUE, !.sentAtCancel = Len(events)]
  /\ UNCHANGED <<orchVars, treeVars, stepVars, knownTests, requested, output, pending, data, events>>

\* the executable is rebuilt while its process runs or its reload waits
ExecutableRebuilt ==
  /\ proc.pc \in {"running", "reloading"}
  /\ mtime[ParsedExec] <= MaxRebuilds
  /\ mtime' = [mtime EXCEPT ![ParsedExec] = @ + 1]
  /\ UNCHANGED <<orchFixed, lastReloadTime, treeVars, stepVars, parseVars>>

\* a reload of the executable that overlaps the run enumerates the rebuilt
\* executable and leaves _tests as it enumerates them now
TestsRefreshed ==
  /\ proc.pc = "running"
  /\ ~proc.refreshed
  /\ ReloadNeeded(mtime[ParsedExec])
  /\ lastReloadTime' = [lastReloadTime EXCEPT ![ParsedExec] = mtime[ParsedExec]]
  /\ \E refreshed \in (SUBSET Names) \ {knownTests} :
       knownTests' = refreshed
  /\ proc' = [proc EXCEPT !.refreshed = TRUE]
  /\ UNCHANGED <<orchFixed, mtime, treeVars, stepVars, requested, output, pending, data, events>>

\* the exit handling as it would be if the timeout were looked at before the
\* cancellation
TimeoutBeforeCancellation(error) ==
  IF data.currentTestCaseNameFull = NoName \/ data.currentChild = NoName THEN <<>>
  ELSE IF proc.timeout THEN <<<<"timeout", data.currentChild>>>>
  ELSE IF proc.cancelled THEN <<<<"cancelled", data.currentChild>>>>
  ELSE IF error THEN <<<<"errored", data.currentChild>>>>
  ELSE <<<<"failed", data.currentChild>>>>

\* what the exit handling sends for the test that is still open
OpenTestEvent(error) ==
  IF data.currentTestCaseNameFull = NoName \/ data.currentChild = NoName THEN <<>>
  ELSE IF proc.cancelled THEN <<<<"cancelled", data.currentChild>>>>
  ELSE IF proc.timeout THEN <<<<"timeout", data.currentChild>>>>
  ELSE IF error THEN <<<<"errored", data.currentChild>>>>
  ELSE <<<<"failed", data.currentChild>>>>

\* the 'close' event and the .then of _handleProcess; the process may close
\* before it wrote everything (killed, crashed, or a test called exit), and
\* whether the ProcessResult carries an error is up to the exit code or signal
ProcessCloses ==
  /\ proc.pc = "running"
  /\ \E failure \in BOOLEAN :
       LET error == failure /\ ~proc.cancelled
           clean == ~proc.timeout /\ ~proc.cancelled /\ ~error
           isTestRemoved == clean /\ Len(data.processedTestCases) < Cardinality(requested)
           reloads == data.unprocessedTestCases # <<>> \/ isTestRemoved
       IN /\ events' = events \o OpenTestEvent(error)
                              \o sendMinimalEventsIfNeeded(data.route, <<>>)
          /\ data' = [data EXCEPT !.route = <<>>]
          /\ proc' = [proc EXCEPT !.pc = IF reloads THEN "reloading" ELSE "done",
                                  !.error = error,
                                  !.open = IF data.currentTestCaseNameFull = NoName
                                           THEN NoName ELSE data.currentChild,
                                  !.reloads = IF reloads THEN @ + 1 ELSE @,
                                  !.short = isTestRemoved,
                                  !.sentAtClose = Len(events')]
  /\ UNCHANGED <<orchVars, treeVars, stepVars, knownTests, requested, output, pending>>

\* the loop over data.unprocessedTestCases after the reload: R.retried counts
\* the payloads looked up in the tree
RECURSIVE Replay(_, _, _, _)
Replay(cases, i, known, R) ==
  IF i > Len(cases) THEN R
  ELSE LET m == BeginMatch(cases[i])
           currentChild == FindTest(known, BegunName(cases[i], m))
       IN IF m = 0 THEN R
          ELSE IF currentChild = NoName THEN [R EXCEPT !.retried = i]
          ELSE Replay(cases, i + 1, known,
                      [events |-> Append(R.events, <<"finished", currentChild>>),
                       retried |-> i])

\* the then-callback of the exit handling's reloadTests call, on the tree
\* the reload left
ReplayOn(tree, enumerations) ==
  LET R == Replay(data.unprocessedTestCases, 1, tree, [events |-> events, retried |-> 0])
  IN /\ knownTests' = tree
     /\ events' = R.events
     /\ proc' = [proc EXCEPT !.pc = "replayed", !.retried = R.retried,
                             !.enumerated = @ + enumerations]

\* the reload as it would be if reloadTests did not look at the cancellation
\* flag before it schedules the enumeration
ReloadIgnoresCancellation ==
  /\ proc.pc = "reloading"
  /\ \E lastModiTime \in {mtime[ParsedExec], 0} :
       IF ReloadNeeded(lastModiTime)
       THEN /\ lastReloadTime' = [lastReloadTime EXCEPT ![ParsedExec] = lastModiTime]
            /\ \E refreshed \in SUBSET Names : ReplayOn(refreshed, 1)
       ELSE /\ ReplayOn(knownTests, 0)
            /\ UNCHANGED lastReloadTime
  /\ UNCHANGED <<orchFixed, mtime, treeVars, stepVars, requested, output, pending, data>>

\* reloadTests(...).then(replay): a cancelled token makes reloadTests return at
\* once; otherwise the executable is enumerated if its modification time is
\* not the recorded one, and the tree is then what it enumerates now
ReloadThenReplay ==
  /\ proc.pc = "reloading"
  /\ IF proc.cancelled
     THEN /\ ReplayOn(knownTests, 0)
          /\ UNCHANGED lastReloadTime
     ELSE \E lastModiTime \in {mtime[ParsedExec], 0} :
            IF ReloadNeeded(lastModiTime)
            THEN /\ lastReloadTime' = [lastReloadTime EXCEPT ![ParsedExec] = lastModiTime]
                 /\ \E refreshed \in SUBSET Names : ReplayOn(refreshed, 1)
            ELSE /\ ReplayOn(knownTests, 0)
                 /\ UNCHANGED lastReloadTime
  /\ UNCHANGED <<orchFixed, mtime, treeVars, stepVars, requested, output, pending, data>>

\* the enumeration throws and the reload rejects: 'reloading-error' is logged
ReloadRejects ==
  /\ proc.pc = "reloading"
  /\ ~proc.cancelled
  /\ \E lastModiTime \in {mtime[ParsedExec], 0} :
       /\ ReloadNeeded(lastModiTime)
       /\ lastReloadTime' = [lastReloadTime EXCEPT ![ParsedExec] = lastModiTime]
  /\ proc' = [proc EXCEPT !.pc = "rejected", !.enumerated = @ + 1]
  /\ UNCHANGED <<orchFixed, mtime, treeVars, stepVars, knownTests, requested, output, pending,
                 data, events>>

ParseNext ==
  \/ \E n \in 1..Len(pending) : Deliver(n)
  \/ TimeoutFires
  \/ CancelProcess
  \/ ExecutableRebuilt
  \/ TestsRefreshed
  \/ ProcessCloses
  \/ ReloadThenReplay
  \/ ReloadRejects

ParseSpec == ParseInit /\ [][ParseNext]_vars

\* the events about one test, and the groups on the routes of the tests of S
TestEventKinds == {"started", "finished", "cancelled", "timeout", "errored", "failed"}
RouteGroups(S) == {RouteOf(t)[i] : t \in S, i \in 1..2}

(***************************************************************************)
(* C16: while the process runs, its parser sends test events (started,     *)
(* finished and the state changes) only for the tests that were requested  *)
(* from the process, and group events only for groups on their routes; a   *)
(* test of the same executable that was not requested gets no event.       *)
(***************************************************************************)
C16_OnlyRequestedTestsGetEvents ==
  proc.pc = "running" =>
    \A i \in 1..Len(events) :
      /\ events[i][1] \in TestEventKinds => events[i][2] \in requested
      /\ events[i][1] \notin TestEventKinds => events[i][2] \in RouteGroups(requested)

(***************************************************************************)
(* C17: within the batch of one process no test gets more than one         *)
(* started event, however the output is cut into chunks.                   *)
(***************************************************************************)
C17_AtMostOneStarted ==
  \A t \in Names : Count(events, <<"started", t>>) <= 1

\* the timeout fired while test t was open, the run was not cancelled, and
\* t was still open when the process closed
TimedOutOpen(t) ==
  /\ proc.pc # "running"
  /\ proc.timeout
  /\ ~proc.cancelled
  /\ t # NoName
  /\ proc.openAtTimeout = t
  /\ proc.open = t

(***************************************************************************)
(* C18: when the timeout fires while a test is open and the run is not     *)
(* cancelled, the test gets exactly one timeout event, no event of a       *)
(* result, and the exit of the process asks for no reload.                 *)
(***************************************************************************)
C18_TimeoutWhileOpen ==
  \A t \in Names :
    TimedOutOpen(t) =>
      /\ Count(events, <<"timeout", t>>) = 1
      /\ Count(events, <<"finished", t>>) = 0
      /\ Count(events, <<"failed", t>>) = 0
      /\ Count(events, <<"errored", t>>) = 0
      /\ proc.reloads = 0

\* the process exited cleanly after fewer tests completed than were requested
ShortCleanExit == proc.pc # "running" /\ proc.short

(***************************************************************************)
(* C19: after a clean exit with fewer completed tests than requested the   *)
(* exit handling asks for a reload of the executable, and once the reload  *)
(* has resolved every buffered orphan payload has been looked up in the    *)
(* refreshed tree.                                                         *)
(***************************************************************************)
C19_ShortExitReloadsAndRetriesAll ==
  ShortCleanExit =>
    /\ proc.reloads = 1
    /\ proc.pc = "replayed" => proc.retried = Len(data.unprocessedTestCases)

\* the whole output was delivered to a parser that was neither cancelled nor
\* had the tree changed under it
AllDelivered ==
  /\ proc.pc = "running"
  /\ pending = <<>>
  /\ ~proc.cancelled
  /\ ~proc.refreshed

(***************************************************************************)
(* C20: the events the parser has sent once the whole output is delivered  *)
(* are those it sends when the output arrives as one chunk, however the    *)
(* output was cut into chunks: a marker cut in the middle makes the parser *)
(* wait, and each test still gets one started and one finished event.      *)
(***************************************************************************)
C20_ChunkingIndependent ==
  AllDelivered =>
    events = processChunk(NewData, <<>>, knownTests, FALSE, output).events

\* the run was cancelled before the process closed, and the exit handling
\* and what it started are over
ClosedCancelled == proc.cancelled /\ proc.pc \in {"done", "replayed", "rejected"}

(***************************************************************************)
(* C21: when the run was cancelled, the exit handling of the process       *)
(* executes no enumeration, whether or not orphan payloads were buffered   *)
(* and whether or not fewer tests completed than were requested.           *)
(***************************************************************************)
C21_NoEnumerationWhenCancelled ==
  ClosedCancelled => proc.enumerated = 0

\* a cancelled process closed with an orphan payload buffered and fewer
\* tests completed than requested; reloadTests was called and came back
C21_Witness ==
  /\ ClosedCancelled
  /\ proc.reloads = 1
  /\ data.unprocessedTestCases # <<>>
  /\ Len(data.processedTestCases) < Cardinality(requested)
  /\ mtime[ParsedExec] # lastReloadTime[ParsedExec]

\* the events sent after the cancellation token was cancelled
SentAfterCancel == SubSeq(events, proc.sentAtCancel + 1, Len(events))

(***************************************************************************)
(* C22: once the run's cancellation is raised, the parser of a spawned     *)
(* process sends no further started or finished event; the only test event *)
(* that may follow is one cancelled event, for the test that was open.     *)
(***************************************************************************)
C22_NothingStartsOrFinishesAfterCancel ==
  proc.cancelled =>
    /\ \A i \in 1..Len(SentAfterCancel) :
         SentAfterCancel[i][1] \notin {"started", "finished"}
    /\ Cardinality({i \in 1..Len(events) : events[i][1] = "cancelled"}) <= 1

\* the process closed while test t was open
ClosedWithOpen(t) == proc.pc # "running" /\ t # NoName /\ proc.open = t

\* the events the exit handling sends for an open test
ExitEventKinds == {"cancelled", "timeout", "errored", "failed"}

\* test t got exactly one event of the exit handling, of the given kind
OnlyExitEvent(t, kind) ==
  \A k \in ExitEventKinds : Count(events, <<k, t>>) = IF k = kind THEN 1 ELSE 0

PayloadName(testCase) == BegunName(testCase, BeginMatch(testCase))

\* the events sent by the replay
Replayed == SubSeq(events, proc.sentAtClose + 1, Len(events))

(***************************************************************************)
(* C24: after the reload of the exit handling has completed, every         *)
(* buffered orphan payload whose test is in the refreshed tree has been    *)
(* replayed as a result event of that test, whether or not an earlier      *)
(* payload of the buffer found no test.                                    *)
(***************************************************************************)
C24_EveryMatchingOrphanReplayed ==
  proc.pc = "replayed" =>
    \A i \in 1..Len(data.unprocessedTestCases) :
      LET name == PayloadName(data.unprocessedTestCases[i])
      IN name \in knownTests => Count(Replayed, <<"finished", name>>) >= 1

\* the reload the exit handling asked for, on a token that is not cancelled,
\* has settled
ExitReloadSettled ==
  /\ proc.reloads = 1
  /\ ~proc.cancelled
  /\ proc.pc \in {"replayed", "rejected"}

(***************************************************************************)
(* C25: the reload asked for at process exit, because of orphan payloads   *)
(* or missing tests, enumerates the executable before the orphans are      *)
(* replayed, also when the modification time of the executable is the one  *)
(* recorded at the last reload.                                            *)
(***************************************************************************)
C25_ExitReloadEnumerates ==
  ExitReloadSettled => proc.enumerated = 1

\* ---------------------------------------------------------------------------
\* The loop of processChunk, one iteration at a time. The buffer is looked at
\* as the test cases in it: blocks counts the complete ones (from "[ RUN" to
\* the end of the result line) whose result line is still in the buffer, tail
\* is what follows the last of them, named says that currentTestCaseNameFull
\* is defined. Every block but the first follows the line break the result
\* line before it left in the buffer; lead says that the chunk begins with
\* such text as well.

MaxBlocks == 3
MaxLeft == 4
MaxChunks == 1

\* the tests of the test cases in the output, in the order they are run
TestOrder == <<<<"a">>, <<"c", "d">>, <<"a", "b">>>>
TestAt(i) == TestOrder[(i % Len(TestOrder)) + 1]

Tails == {"none", "newline", "begun"}

\* data.stdoutAndErrBuffer.length > 0
BufferLeft(L) == L.blocks > 0 \/ L.tail # "none"

\* the loop after done iterations over complete test cases of a chunk
LoopAfter(done, blocks, tail, lead) ==
  [pc |-> "loop", blocks |-> blocks, tail |-> tail, lead |-> lead,
   named |-> done % 2 = 1, invariant |-> LoopGuard - done,
   progress |-> lead \/ done = 0, begun |-> IF done = 0 THEN 0 ELSE 1,
   chunks |-> 0]

\* data and the events sent for the test case the loop is at after done
\* iterations (those of the test cases before it are left out)
DataAfter(done) ==
  IF done = 0 THEN NewData
  ELSE [NewData EXCEPT !.route = RouteOf(TestAt(0)),
                       !.currentTestCaseNameFull = IF done % 2 = 1 THEN TestAt(0) ELSE NoName,
                       !.currentChild = IF done % 2 = 1 THEN TestAt(0) ELSE NoName]

EventsAfter(done) ==
  IF done = 0 THEN <<>>
  ELSE sendMinimalEventsIfNeeded(<<>>, RouteOf(TestAt(0))) \o <<<<"started", TestAt(0)>>>>
       \o (IF done % 2 = 1 THEN <<>> ELSE <<<<"finished", TestAt(0)>>>>)

\* processChunk is entered (invariant = LoopGuard), or it has gone through
\* test cases of its chunk and MaxLeft iterations or fewer are left to it
GuardInit ==
  /\ cfg = [global |-> 1, parallel |-> 1, tasks |-> [s \in Stages |-> 0]]
  /\ OrchStart
  /\ treeCfg = [sameLabel |-> FALSE, depth |-> MaxDepth]
  /\ TreeStart
  /\ timer = IdleTimer
  /\ split = IdleSplit
  /\ AuxStart
  /\ knownTests = Names
  /\ requested = Names
  /\ output = <<>>
  /\ pending = <<>>
  /\ proc = [IdleProc EXCEPT !.pc = "running"]
  /\ \E done \in {0} \cup ((LoopGuard - MaxLeft)..(LoopGuard - 1)),
        blocks \in 0..MaxBlocks, tail \in Tails, lead \in BOOLEAN :
       /\ done % 2 = 1 => blocks > 0 \/ tail = "begun"
       /\ loop = LoopAfter(done, blocks, tail, lead)
       /\ data = DataAfter(done)
       /\ events = EventsAfter(done)

\* the begin marker of the next test case is looked for; what is before it
\* in the buffer is dropped, and in the first iteration that is the lead
BeginIteration(L) ==
  IF L.blocks = 0 /\ L.tail # "begun" THEN [L EXCEPT !.pc = "returned"]
  ELSE [L EXCEPT !.named = TRUE, !.begun = @ + 1,
                 !.progress = @ /\ (L.invariant # LoopGuard \/ L.lead)]

\* the result line of the current test case is looked for
EndIteration(L) ==
  IF L.blocks = 0 THEN [L EXCEPT !.pc = "returned"]
  ELSE [L EXCEPT !.named = FALSE, !.blocks = @ - 1]

\* while (buffer.length > 0 && --invariant > 0); if (invariant == 0) kill
WhileCondition(L) ==
  IF L.pc = "returned" THEN L
  ELSE IF ~BufferLeft(L) THEN [L EXCEPT !.pc = "done"]
  ELSE IF L.invariant - 1 > 0 THEN [L EXCEPT !.invariant = @ - 1]
  ELSE [L EXCEPT !.invariant = 0, !.pc = "killed"]

\* one iteration of the do-while loop, with what it does to data and the
\* events it sends; every test of the output is in the tree
Iterate ==
  /\ loop.pc = "loop"
  /\ LET body == IF loop.named THEN EndIteration(loop) ELSE BeginIteration(loop)
         test == TestAt(loop.begun)
     IN /\ loop' = WhileCondition(body)
        /\ IF body.pc = "returned" THEN UNCHANGED <<data, events>>
           ELSE IF loop.named
           THEN /\ events' = Append(events, <<"finished", data.currentChild>>)
                /\ data' = [data EXCEPT !.currentTestCaseNameFull = NoName,
                                        !.currentChild = NoName,
                                        !.processedTestCases = Append(@, data.currentChild)]
           ELSE /\ events' = events \o sendMinimalEventsIfNeeded(data.route, RouteOf(test))
                                    \o <<<<"started", test>>>>
                /\ data' = [data EXCEPT !.currentTestCaseNameFull = test,
                                        !.currentChild = test,
                                        !.route = RouteOf(test)]
  /\ UNCHANGED <<orchVars, treeVars, knownTests, requested, output, pending, proc,
                 timer, split, auxVars>>

\* the guard has called resolve(ProcessResult.error(..)) and killProcess():
\* the .then of _handleProcess runs while the process is not closed yet
GuardExitHandling ==
  /\ loop.pc = "killed"
  /\ proc.pc = "running"
  /\ events' = events \o OpenTestEvent(TRUE) \o sendMinimalEventsIfNeeded(data.route, <<>>)
  /\ data' = [data EXCEPT !.route = <<>>]
  /\ proc' = [proc EXCEPT !.pc = IF data.unprocessedTestCases # <<>> THEN "reloading"
                                 ELSE "done",
                          !.error = TRUE,
                          !.open = IF data.currentTestCaseNameFull = NoName
                                   THEN NoName ELSE data.currentChild,
                          !.sentAtClose = Len(events')]
  /\ UNCHANGED <<orchVars, treeVars, knownTests, requested, output, pending, stepVars>>

\* the next 'data' event of a process that has not closed: processChunk is
\* called again, the chunk completes a test case that was cut and holds k more
LateChunk(k, tail) ==
  /\ loop.pc \in {"returned", "done", "killed"}
  /\ loop.pc = "killed" => proc.pc # "running"
  /\ loop.chunks < MaxChunks
  /\ loop' = [loop EXCEPT !.pc = "loop", !.invariant = LoopGuard, !.lead = TRUE,
                          !.progress = TRUE, !.chunks = @ + 1, !.tail = tail,
                          !.blocks = @ + k + (IF loop.tail = "begun" THEN 1 ELSE 0)]
  /\ UNCHANGED <<orchVars, treeVars, parseVars, timer, split, auxVars>>

GuardNext ==
  \/ Iterate
  \/ GuardExitHandling
  \/ \E k \in 0..MaxBlocks, tail \in Tails : LateChunk(k, tail)

GuardSpec == GuardInit /\ [][GuardNext]_vars

\* C26: the iteration guard kills the process only after an iteration that
\* neither consumed part of the buffer nor completed a test case, however
\* many complete test cases the chunk holds; and the loop of processChunk
\* does not go beyond its bounded number of iterations.
C26_GuardFiresOnlyWithoutProgress ==
  /\ loop.pc = "killed" => ~loop.progress
  /\ loop.invariant \in 0..LoopGuard

\* ---------------------------------------------------------------------------
\* The running timeout of _runProcess. Time is counted in ticks; a timer that
\* is due fires before the clock goes on. promise numbers the promises that
\* shedule() makes one after the other: a timer resolves the promise of the
\* shedule() call that set it, and resolving a promise a second time does
\* nothing. The process closes when it will, killed or not.

MaxTime == 4
MaxTimeout == 3
MaxChanges == 2

Timeouts == {NoTimeout} \cup 1..MaxTimeout

\* shedule(): a new promise becomes the one trigger resolves, with a timer
\* for what is left of execRunningTimeout if there is one
shedule(T) ==
  LET elapsed == T.now - T.startTime
      left == Max(0, T.execRunningTimeout - elapsed)
      next == T.promise + 1
  IN [T EXCEPT !.promise = next,
               !.timers = IF T.execRunningTimeout # NoTimeout
                          THEN @ \cup {[at |-> T.now + left, promise |-> next]}
                          ELSE @]

\* the process is spawned and shedule() is called for the first time
TimerInit ==
  /\ cfg = [global |-> 1, parallel |-> 1, tasks |-> [s \in Stages |-> 0]]
  /\ OrchStart
  /\ treeCfg = [sameLabel |-> FALSE, depth |-> MaxDepth]
  /\ TreeStart
  /\ ParseStart
  /\ loop = IdleLoop
  /\ split = IdleSplit
  /\ AuxStart
  /\ \E d \in Timeouts :
       timer = shedule([IdleTimer EXCEPT !.pc = "running", !.execRunningTimeout = d])

TimerBecomes(T) ==
  /\ timer' = T
  /\ UNCHANGED <<orchVars, treeVars, parseVars, loop, split, auxVars>>

Due(T) == {t \in T.timers : t.at <= T.now}

\* Date.now() goes on
Tick ==
  /\ timer.pc # "none"
  /\ timer.now < MaxTime
  /\ Due(timer) = {}
  /\ TimerBecomes([timer EXCEPT !.now = @ + 1])

\* runInfo.killProcess(timeout), issued by the timeout path
killProcess(T) ==
  [T EXCEPT !.kills = @ + 1, !.killedAt = T.now,
            !.killedWith = T.execRunningTimeout,
            !.killedClosed = T.pc = "closed"]

SupersededTimerKills(t) ==
  /\ t \in Due(timer)
  /\ LET fired == [timer EXCEPT !.timers = @ \ {t},
                                !.stale = IF t.promise # timer.promise THEN @ + 1 ELSE @]
     IN TimerBecomes(IF ~timer.settled
                     THEN killProcess([fired EXCEPT !.settled = TRUE])
                     ELSE fired)

\* setTimeout calls resolve('timeout') of the promise it was set for
TimerFires(t) ==
  /\ t \in Due(timer)
  /\ LET fired == [timer EXCEPT !.timers = @ \ {t},
                                !.stale = IF t.promise # timer.promise THEN @ + 1 ELSE @]
     IN TimerBecomes(IF t.promise = timer.promise /\ ~timer.settled
                     THEN killProcess([fired EXCEPT !.settled = TRUE])
                     ELSE fired)

\* the configured timeout changes; until changeConn is disposed the listener
\* calls trigger('reschedule'), and the then-callback calls shedule() again
ChangeTimeout(d) ==
  /\ timer.pc # "none"
  /\ timer.changes < MaxChanges
  /\ d # timer.execRunningTimeout
  /\ LET changed == [timer EXCEPT !.execRunningTimeout = d, !.changes = @ + 1]
     IN TimerBecomes(IF timer.settled THEN changed ELSE shedule(changed))

\* runInfo.process.once('close'): trigger('closed')
ProcessClosed ==
  /\ timer.pc = "running"
  /\ TimerBecomes([timer EXCEPT !.pc = "closed", !.settled = TRUE])

TimerNext ==
  \/ Tick
  \/ \E t \in timer.timers : TimerFires(t)
  \/ \E d \in Timeouts : ChangeTimeout(d)
  \/ ProcessClosed

TimerSpec == TimerInit /\ [][TimerNext]_vars

\* C27: a process that is alive when the configured timeout has elapsed
\* since its start has been killed, or the timer that kills it is due and
\* fires before the clock goes on; the timeout path never kills a process
\* that has closed; it kills at most once, and not before start + the timeout
\* in force when it kills, so a timer set for an earlier value has no effect.
C27_KilledAtTheCurrentDeadline ==
  /\ (/\ timer.pc = "running"
      /\ timer.execRunningTimeout # NoTimeout
      /\ timer.now >= timer.startTime + timer.execRunningTimeout)
       => \/ timer.kills = 1
          \/ \E t \in Due(timer) : t.promise = timer.promise
  /\ ~timer.killedClosed
  /\ timer.kills <= 1
  /\ timer.kills = 1 =>
       /\ timer.killedWith # NoTimeout
       /\ timer.killedAt >= timer.startTime + timer.killedWith

\* the timeout was raised while the process ran, the timer of the earlier
\* value fired, and the process was killed at the later deadline
C27_Witness ==
  /\ timer.kills = 1
  /\ timer.stale > 0
  /\ timer.changes > 0
  /\ timer.killedAt = timer.startTime + timer.killedWith
  /\ timer.pc = "running"

\* ---------------------------------------------------------------------------
\* The two splits of AbstractRunnable.run, applied to one selection. Both
\* look at the order of the tests and at the length of their identity strings
\* only. IdLen gives the tests <<1, i>> strings of half the limit and the
\* tests <<2, i>> short ones; a selection is drawn from both kinds, in any
\* order, together with the number of tests of the executable (this.tests.size)
\* and the limit of its parallelizationPool.

LongTests == 3
ShortTests == 2
MaxBucket == 4
MaxLimit == 3

SplitTests == {<<1, i>> : i \in 1..LongTests} \cup {<<2, i>> : i \in 1..ShortTests}

\* childrenToRun: not empty, no test twice
Selections ==
  {o \in UNION {[1..n -> SplitTests] : n \in 1..MaxBucket} :
     \A i, j \in 1..Len(o) : o[i] = o[j] => i = j}

SplitInit ==
  /\ cfg = [global |-> 1, parallel |-> 1, tasks |-> [s \in Stages |-> 0]]
  /\ OrchStart
  /\ treeCfg = [sameLabel |-> FALSE, depth |-> MaxDepth]
  /\ TreeStart
  /\ ParseStart
  /\ loop = IdleLoop
  /\ timer = IdleTimer
  /\ AuxStart
  /\ \E o \in Selections, limit \in 1..MaxLimit :
       \E size \in Len(o)..Cardinality(SplitTests) :
         split = [IdleSplit EXCEPT !.pc = "selected", !.tests = o, !.size = size,
                                   !.maxTaskCount = limit]

\* const buckets = this._splitTestSetForMultirunIfEnabled(childrenToRun)
SplitForMultirun ==
  /\ split.pc = "selected"
  /\ split' = [split EXCEPT
       !.pc = "buckets",
       !.buckets = SplitTestSetForMultirunIfEnabled(split.tests, split.maxTaskCount,
                                                    split.size)]
  /\ UNCHANGED <<orchVars, treeVars, parseVars, loop, timer, auxVars>>

\* buckets.map(bucket => this._splitTestsToSmallEnoughSubsets(bucket))
SplitBuckets ==
  /\ split.pc = "buckets"
  /\ split' = [split EXCEPT
       !.pc = "subsets",
       !.subsets = [k \in 1..Len(split.buckets) |->
                      SplitTestsToSmallEnoughSubsets(split.buckets[k])]]
  /\ UNCHANGED <<orchVars, treeVars, parseVars, loop, timer, auxVars>>

SplitNext == SplitForMultirun \/ SplitBuckets

SplitSpec == SplitInit /\ [][SplitNext]_vars

\* the sequences of a sequence of sequences, one after the other
RECURSIVE Concat(_)
Concat(ss) == IF ss = <<>> THEN <<>> ELSE Head(ss) \o Concat(Tail(ss))

\* cumulative length of the identity strings of a sequence of tests
RECURSIVE CharCount(_)
CharCount(ts) == IF ts = <<>> THEN 0 ELSE IdLen(Head(ts)) + CharCount(Tail(ts))

\* C28: the sub-batches of a bucket are consecutive parts of it in its order
\* and cover it exactly, none is empty, the identity strings of each sum up to
\* less than the bound, and a sub-batch begins only where the next test would
\* have brought the one before it to the bound (the greedy split).
C28_SubsetsAreTheGreedySplit ==
  split.pc = "subsets" =>
    \A k \in 1..Len(split.buckets) :
      LET subsets == split.subsets[k]
      IN /\ Concat(subsets) = split.buckets[k]
         /\ \A i \in 1..Len(subsets) :
              /\ subsets[i] # <<>>
              /\ CharCount(subsets[i]) < SplitLimit
              /\ i > 1 => CharCount(subsets[i - 1]) + IdLen(subsets[i][1]) >= SplitLimit

\* C29: for a limit above 1 the buckets are the selection dealt out round
\* robin: no test in two buckets, no bucket empty, every selected test in one,
\* sizes that differ by one at most, and min(limit, selected tests) buckets;
\* for limit 1 the selection is the one bucket.
C29_BucketsAreRoundRobinOverLimit ==
  split.pc # "selected" /\ split.pc # "none" =>
    LET buckets == split.buckets
        n == Len(split.tests)
    IN IF split.maxTaskCount > 1
       THEN /\ Len(buckets) = Min(split.maxTaskCount, n)
            /\ \A k \in 1..Len(buckets) :
                 /\ buckets[k] # <<>>
                 /\ \A i \in 1..Len(buckets[k]) :
                      buckets[k][i] = split.tests[(i - 1) * Len(buckets) + k]
                 /\ \A j \in 1..Len(buckets) :
                      /\ Len(buckets[k]) - Len(buckets[j]) <= 1
                      /\ j # k => Range(buckets[k]) \cap Range(buckets[j]) = {}
            /\ UNION {Range(buckets[k]) : k \in 1..Len(buckets)} = Range(split.tests)
       ELSE buckets = <<split.tests>>

\* the batches of executable e in run r whose spawn failed
FailedBatches(r, e) == {id \in BatchIds : id[1] = r /\ id[2] = e /\ BatchPc(r, e, id[3]) = "failed"}

\* C30: after the process of one batch could not be spawned, no other batch
\* of that executable's run is given up (the other buckets and the later
\* sub-batches of the same bucket are run), and when the top-level run has
\* finished every other executable of it has run to completion.
C30_FailedBatchLeavesSiblingsAlone ==
  \A r \in Runs, e \in Execs :
    FailedBatches(r, e) # {} =>
      /\ \A id \in BatchIds : id[1] = r /\ id[2] = e => BatchPc(r, e, id[3]) # "skipped"
      /\ run[r].pc \in {"finished", "returned"} =>
           \A x \in run[r].runnables \ {e} :
             FailedBatches(r, x) = {} => er[r][x].pc = "done" /\ Unfinished(r, x) = {}

\* the .then of _handleProcess has run
HandlingEnded == proc.pc \in {"done", "reloading", "replayed", "rejected"}

IsGroupEvent(e) == e[1] \in {"running", "completed"}

\* the events up to the i-th gone through in order: open is the sequence of
\* groups with a running event and no completed event after it, ok says that
\* no group got a running event while open, that every completed event went
\* to the group opened last, and that at every started event the open groups
\* were the route of the test, outermost first
RECURSIVE RouteWalk(_, _)
RouteWalk(ev, i) ==
  IF i = 0 THEN [open |-> <<>>, ok |-> TRUE]
  ELSE LET W == RouteWalk(ev, i - 1)
           e == ev[i]
           n == Len(W.open)
       IN IF e[1] = "running"
          THEN [open |-> Append(W.open, e[2]),
                ok |-> W.ok /\ e[2] \notin Range(W.open)]
          ELSE IF e[1] = "completed"
          THEN [open |-> IF n > 0 THEN SubSeq(W.open, 1, n - 1) ELSE <<>>,
                ok |-> W.ok /\ n > 0 /\ W.open[n] = e[2]]
          ELSE IF e[1] = "started"
          THEN [open |-> W.open,
                ok |-> W.ok /\ W.open = [k \in 1..Len(RouteOf(e[2])) |->
                                           RouteOf(e[2])[Len(RouteOf(e[2])) + 1 - k]]]
          ELSE W

\* C31: running events go to the ancestors of the started test that are not
\* on the route before, outermost first and before the started event; a
\* group on two consecutive routes gets no event between the two started
\* events; completed events go bottom-up; and once the handling of the
\* process has ended no group is left with a running event and no completed
\* event, and the active route is empty.
C31_MinimalRouteEvents ==
  /\ RouteWalk(events, Len(events)).ok
  /\ \A i, j \in 1..Len(events) :
       (/\ i < j
        /\ events[i][1] = "started" /\ events[j][1] = "started"
        /\ \A k \in (i + 1)..(j - 1) : events[k][1] # "started")
       => \A k \in (i + 1)..(j - 1) :
            IsGroupEvent(events[k]) =>
              events[k][2] \notin Range(RouteOf(events[i][2])) \cap Range(RouteOf(events[j][2]))
  /\ HandlingEnded => /\ RouteWalk(events, Len(events)).open = <<>>
                      /\ data.route = <<>>

\* C40: once the exit handling has run, the handlers of the process send
\* nothing more: apart from the replay of the buffered payloads after the
\* exit reload, the events are those that were sent when it ended.
C40_NoEventsAfterExitHandling ==
  proc.pc \in {"done", "reloading", "rejected"} => Len(events) = proc.sentAtClose

\* ---------------------------------------------------------------------------
\* The parser of DOCRunnable._handleProcess over the XML the executable
\* writes. The output is looked at tag by tag: <<"S", name>> is a TestCase tag
\* that ends in "/>" (a skipped test), <<"O", name>> a TestCase tag that
\* opens a test case and <<"C">> the closing tag; a tag that a chunk cuts is
\* matched once its last character has arrived, so chunks carry whole tags.
\* The variables of the process are those of ParseSpec, with the data object
\* of DOCRunnable.

MaxDocCases == 3

NewDocData == [stdoutBuffer |-> <<>>, inTestCase |-> FALSE, currentChild |-> NoName,
               route |-> <<>>, unprocessedXmlTestCases |-> <<>>,
               processedTestCases |-> <<>>]

\* what the executable writes for one test
DocCase(name, skipped) ==
  IF skipped THEN <<<<"S", name>>>> ELSE <<<<"O", name>>, <<"C">>>>

\* the test cases of the output: no test twice, each one run or skipped
DocRuns ==
  {r \in UNION {[1..n -> Names \X BOOLEAN] : n \in 0..MaxDocCases} :
     \A i, j \in 1..Len(r) : r[i][1] = r[j][1] => i = j}

RECURSIVE DocOutput(_)
DocOutput(r) ==
  IF r = <<>> THEN <<>> ELSE DocCase(Head(r)[1], Head(r)[2]) \o DocOutput(Tail(r))

\* data.stdoutBuffer.match(testCaseTagRe): the index of the first TestCase tag
TestCaseTag(buf) ==
  LET hits == {i \in 1..Len(buf) : buf[i][1] \in {"S", "O"}}
  IN IF hits = {} THEN 0 ELSE First(hits)

\* data.stdoutBuffer.indexOf('</TestCase>')
EndTestCase(buf) ==
  LET hits == {i \in 1..Len(buf) : buf[i][1] = "C"}
  IN IF hits = {} THEN 0 ELSE First(hits)

\* the branch of the loop body for !data.inTestCase
DocIdleBranch(P, known) ==
  LET buf == P.data.stdoutBuffer
      m == TestCaseTag(buf)
      skipped == buf[m][1] = "S"
      test == FindTest(known, buf[m][2])
      routed == [P EXCEPT !.data.route = RouteOf(test),
                          !.events = @ \o sendMinimalEventsIfNeeded(P.data.route, RouteOf(test))]
  IN IF m = 0 THEN [P EXCEPT !.returned = TRUE]
     ELSE IF test = NoName THEN [P EXCEPT !.data.inTestCase = TRUE]
     ELSE IF ~skipped
     THEN [routed EXCEPT !.data.inTestCase = TRUE,
                         !.data.currentChild = test,
                         !.events = Append(@, <<"started", test>>),
                         !.data.stdoutBuffer = SubSeq(buf, m, Len(buf))]
     ELSE [routed EXCEPT !.data.inTestCase = FALSE,
                         !.data.currentChild = NoName,
                         !.data.stdoutBuffer = SubSeq(buf, m + 1, Len(buf))]

\* the branch of the loop body for data.inTestCase
DocEndBranch(P) ==
  LET buf == P.data.stdoutBuffer
      b == EndTestCase(buf)
      testCaseXml == SubSeq(buf, 1, b)
      closed == [P EXCEPT !.data.inTestCase = FALSE,
                          !.data.currentChild = NoName,
                          !.data.stdoutBuffer = SubSeq(buf, b + 1, Len(buf))]
  IN IF b = 0 THEN [P EXCEPT !.returned = TRUE]
     ELSE IF P.data.currentChild # NoName
     THEN [closed EXCEPT !.data.processedTestCases = Append(@, P.data.currentChild),
                         !.events = Append(@, <<"finished", P.data.currentChild>>)]
     ELSE [closed EXCEPT !.data.unprocessedXmlTestCases = Append(@, testCaseXml)]

\* do { ... } while (data.stdoutBuffer.length > 0 && --invariant > 0)
RECURSIVE DocChunkLoop(_, _, _)
DocChunkLoop(P, known, invariant) ==
  LET Q == IF ~P.data.inTestCase THEN DocIdleBranch(P, known) ELSE DocEndBranch(P)
  IN IF Q.returned THEN Q
     ELSE IF Q.data.stdoutBuffer = <<>> THEN Q
     ELSE IF invariant - 1 > 0 THEN DocChunkLoop(Q, known, invariant - 1)
     ELSE [Q EXCEPT !.stuck = TRUE]

\* the executable starts; some of its tests may not be in the tree yet
DocInit ==
  /\ cfg = [global |-> 1, parallel |-> 1, tasks |-> [s \in Stages |-> 0]]
  /\ OrchStart
  /\ treeCfg = [sameLabel |-> FALSE, depth |-> MaxDepth]
  /\ TreeStart
  /\ StepStart
  /\ knownTests \in SUBSET Names
  /\ \E r \in DocRuns :
       /\ requested = {r[i][1] : i \in 1..Len(r)}
       /\ output = DocOutput(r)
  /\ pending = output
  /\ data = NewDocData
  /\ events = <<>>
  /\ proc = [IdleProc EXCEPT !.pc = "running"]

\* process.stdout.on('data', chunk => processChunk(chunk)) with the next n tags
DocDeliver(n) ==
  /\ proc.pc = "running"
  /\ n \in 1..Len(pending)
  /\ LET P == [data |-> [data EXCEPT !.stdoutBuffer = @ \o SubSeq(pending, 1, n)],
               events |-> events, returned |-> FALSE, stuck |-> FALSE]
         Q == DocChunkLoop(P, knownTests, LoopGuard)
     IN /\ data' = Q.data
        /\ events' = Q.events
  /\ pending' = SubSeq(pending, n + 1, Len(pending))
  /\ UNCHANGED <<orchVars, treeVars, stepVars, knownTests, requested, output, proc>>

DocNext == \E n \in 1..(2 * MaxDocCases) : DocDeliver(n)

DocSpec == DocInit /\ [][DocNext]_vars

\* C32: once the whole output is parsed, every skipped test that is in the
\* tree has got one skipped event, the parser is not inside a test case, and
\* every test that was run and is in the tree has got its own started and
\* finished event: a self-terminating begin marker, of a known test or not,
\* never opens a test case that swallows the one after it.
C32_SkippedMarkerStaysIdle ==
  pending = <<>> =>
    /\ ~data.inTestCase
    /\ \A i \in 1..Len(output) :
         /\ (output[i][1] = "S" /\ output[i][2] \in knownTests) =>
              Count(events, <<"skipped", output[i][2]>>) = 1
         /\ (output[i][1] = "O" /\ output[i][2] \in knownTests) =>
              /\ Count(events, <<"started", output[i][2]>>) = 1
              /\ Count(events, <<"finished", output[i][2]>>) = 1

\* the tests of executable e are those the executable as it is now enumerates
\* (its tests, or the error node when the enumeration writes to stderr)
TreeIsCurrent(e) == tests[e] \in {binTests[e], {ErrTest(e)}}

\* the reload u finds the modification time unchanged and resolves
SkippedByMtime(u) ==
  /\ u.pc = "stat"
  /\ Holds(gPool, u.id)
  /\ \A v \in rl' : v.id # u.id
  /\ lastReloadTime' = lastReloadTime

\* C33: a reload request is skipped by the modification-time check only when
\* the tree already holds what an enumeration of the executable as it is now
\* gives: after an enumeration that threw, the next request enumerates again
\* although the executable is unchanged.
C33_SkipOnlyWhenTreeIsCurrent ==
  [][\A u \in rl : SkippedByMtime(u) => TreeIsCurrent(u.e)]_vars

(***************************************************************************)
(* The enumeration cache: one _reloadChildren call of a GoogleTestRunnable  *)
(* or a DOCRunnable, the cache file and the executable on disk              *)
(***************************************************************************)
MaxStamp == 2

Stamps == 1..MaxStamp

\* the cache file: absent, or with a size, a modification time, a content
\* (the listing of an earlier build, or something that does not parse) and
\* whether readFile succeeds on it
NoFile == [exists |-> FALSE, size |-> 0, mtime |-> 0, content |-> "none", readable |-> FALSE]

CacheFiles ==
  {NoFile} \cup
  [exists : {TRUE}, size : {0}, mtime : Stamps, content : {"none"}, readable : {TRUE}] \cup
  [exists : {TRUE}, size : {1}, mtime : Stamps, content : {"old", "garbled"},
   readable : BOOLEAN]

\* what the executable writes when it is spawned in list mode
LiveFile(t) == [exists |-> TRUE, size |-> 1, mtime |-> t, content |-> "new", readable |-> TRUE]

\* the call before its first statement.  enabled: getEnableTestListCaching();
\* execStat: whether fs.stat of the executable succeeds; live: how
\* spawnAsync settles ("stderr": with stderr output that is not ignored);
\* writesXml: whether the Google Test build honours --gtest_output for a
\* listing.  listing is the enumeration the RunnableReloadResult was made
\* from; failed, spawned and file0 are history.
CacheInit ==
  /\ cfg = [global |-> 1, parallel |-> 1, tasks |-> [s \in Stages |-> 0]]
  /\ OrchStart
  /\ treeCfg = [sameLabel |-> FALSE, depth |-> MaxDepth]
  /\ TreeStart
  /\ ParseStart
  /\ loop = IdleLoop
  /\ timer = IdleTimer
  /\ split = IdleSplit
  /\ factory = IdleFactory
  /\ \E fw \in {"google", "doc"}, en \in BOOLEAN, f \in CacheFiles, m \in Stamps,
        st \in BOOLEAN, lv \in {"ok", "stderr", "throw"}, wx \in BOOLEAN :
       /\ fw = "doc" => wx = FALSE
       /\ cache = [pc |-> "start", framework |-> fw, enabled |-> en, file |-> f,
                   file0 |-> f, execMtime |-> m, execStat |-> st, live |-> lv,
                   writesXml |-> wx, listing |-> "none", failed |-> FALSE,
                   spawned |-> FALSE]

CacheUnchanged == UNCHANGED <<orchVars, treeVars, parseVars, loop, timer, split, factory>>

\* if (this._shared.configuration.getEnableTestListCaching())
CachingEnabled ==
  /\ cache.pc = "start"
  /\ cache' = [cache EXCEPT !.pc = IF cache.enabled THEN "stat" ELSE "spawn"]
  /\ CacheUnchanged

\* the two fs.stat calls settle and the condition on them is evaluated; a
\* rejected stat is caught by the catch block
CacheStat ==
  /\ cache.pc = "stat"
  /\ cache' = IF ~cache.file.exists \/ ~cache.execStat
              THEN [cache EXCEPT !.pc = "spawn", !.failed = TRUE]
              ELSE IF cache.file.size > 0 /\ cache.file.mtime > cache.execMtime
              THEN [cache EXCEPT !.pc = "read"]
              ELSE [cache EXCEPT !.pc = "spawn"]
  /\ CacheUnchanged

\* readFile and _reloadFromXml / _reloadFromString of the cache settle, inside
\* the try block
CacheRead ==
  /\ cache.pc = "read"
  /\ cache' = IF ~cache.file.readable \/ cache.file.content = "garbled"
              THEN [cache EXCEPT !.pc = "spawn", !.failed = TRUE]
              ELSE [cache EXCEPT !.pc = "done", !.listing = cache.file.content]
  /\ CacheUnchanged

\* spawnAsync of the executable in list mode settles.  DOCRunnable parses
\* stdout and writes the cache file; GoogleTestRunnable goes on to look for
\* the output file it asked the executable to write.
ListSpawned ==
  /\ cache.pc = "spawn"
  /\ LET c == [cache EXCEPT !.spawned = TRUE]
         t == Max(cache.file.mtime, cache.execMtime) + 1
     IN cache' =
          CASE cache.live = "throw" -> [c EXCEPT !.pc = "rejected"]
            [] cache.live = "stderr" ->
                 [c EXCEPT !.pc = "done", !.listing = "stderr",
                           !.file = IF c.framework = "google" /\ c.writesXml
                                    THEN LiveFile(t) ELSE @]
            [] c.framework = "doc" ->
                 [c EXCEPT !.pc = "done", !.listing = "new",
                           !.file = IF c.enabled THEN LiveFile(t) ELSE @]
            [] OTHER ->
                 [c EXCEPT !.pc = "output",
                           !.file = IF c.writesXml THEN LiveFile(t) ELSE @]
  /\ CacheUnchanged

\* GoogleTestRunnable after the spawn: fs.exists(cacheFile), then readFile and
\* _reloadFromXml of that file, else _reloadFromString of stdout
OutputFileRead ==
  /\ cache.pc = "output"
  /\ cache' =
       IF cache.file.exists
       THEN IF ~cache.file.readable \/ cache.file.content \in {"garbled", "none"}
            THEN [cache EXCEPT !.pc = "rejected"]
            ELSE [cache EXCEPT !.pc = "done", !.listing = cache.file.content,
                               !.file = IF cache.enabled THEN @ ELSE NoFile]
       ELSE [cache EXCEPT !.pc = "done", !.listing = "new"]
  /\ CacheUnchanged

CacheNext ==
  \/ CachingEnabled
  \/ CacheStat
  \/ CacheRead
  \/ ListSpawned
  \/ OutputFileRead

CacheSpec == CacheInit /\ [][CacheNext]_vars

\* the condition under which the cache may stand in for the executable
CacheIsNewer ==
  /\ cache.enabled
  /\ cache.file0.exists
  /\ cache.file0.size > 0
  /\ cache.file0.mtime > cache.execMtime

ReloadSettled == cache.pc \in {"done", "rejected"}

\* C34: the listing of the cache file that was on disk is what the reload
\* result is made from only if caching is enabled and the file is non-empty
\* and strictly newer than the executable; after a failed stat, read or parse
\* of the cache the executable has been spawned in list mode, and the reload
\* is rejected only if that spawn failed.
C34_CacheOnlyWhenNewerElseLive ==
  /\ (ReloadSettled /\ cache.listing = "old") => CacheIsNewer
  /\ (ReloadSettled /\ cache.failed) =>
        /\ cache.spawned
        /\ cache.pc = "rejected" => cache.live = "throw"

(***************************************************************************)
(* TestSuiteInfoFactory.create: one executable is classified and its        *)
(* adapter is made                                                          *)
(***************************************************************************)
MaxVersion == 1

Versions == [1..3 -> 0..MaxVersion]

\* which of the three patterns the --help output matches
Banners == SUBSET {"catch2", "google", "doc"}

\* isNative: isNativeExecutableAsync resolves; helpRuns: spawnAsync of
\* --help resolves; stdout: the banners in its output; version: the numbers
\* that follow a Catch2 or doctest banner.  framework is the
\* TestFrameworkInfo, adapter what create() resolves with, detached the
\* GoogleTestSuiteInfo made by the promise chain that is not returned.
FactoryInit ==
  /\ cfg = [global |-> 1, parallel |-> 1, tasks |-> [s \in Stages |-> 0]]
  /\ OrchStart
  /\ treeCfg = [sameLabel |-> FALSE, depth |-> MaxDepth]
  /\ TreeStart
  /\ ParseStart
  /\ loop = IdleLoop
  /\ timer = IdleTimer
  /\ split = IdleSplit
  /\ cache = IdleCache
  /\ \E n \in BOOLEAN, h \in BOOLEAN, b \in Banners, v \in Versions :
       factory = [pc |-> "start", isNative |-> n, helpRuns |-> h, stdout |-> b,
                  version |-> v, framework |-> [type |-> "none", version |-> <<0, 0, 0>>],
                  adapter |-> [type |-> "none", version |-> <<0, 0, 0>>],
                  detached |-> "none"]

FactoryUnchanged == UNCHANGED <<orchVars, treeVars, parseVars, loop, timer, split, cache>>

\* the three matches of determineTestTypeOfExecutable, in the order of the code
determineTestTypeOfExecutable(stdout, version) ==
  IF "catch2" \in stdout THEN [type |-> "catch2", version |-> version]
  ELSE IF "google" \in stdout THEN [type |-> "google", version |-> <<0, 0, 0>>]
  ELSE IF "doc" \in stdout THEN [type |-> "doc", version |-> version]
  ELSE [type |-> "none", version |-> <<0, 0, 0>>]

\* the task scheduled by create() settles
Classified ==
  /\ factory.pc = "start"
  /\ LET f == determineTestTypeOfExecutable(factory.stdout, factory.version)
     IN factory' = IF ~factory.isNative \/ ~factory.helpRuns \/ f.type = "none"
                   THEN [factory EXCEPT !.pc = "rejected"]
                   ELSE [factory EXCEPT !.pc = "classified", !.framework = f]
  /\ FactoryUnchanged

\* the switch of create(): case 'google' starts a promise chain and, having
\* no return, runs on into case 'catch2'
AdapterOf(framework) ==
  CASE framework.type = "google" -> [type |-> "catch2", version |-> framework.version]
    [] framework.type = "catch2" -> [type |-> "catch2", version |-> framework.version]
    [] framework.type = "doc" -> [type |-> "doc", version |-> framework.version]
    [] OTHER -> [type |-> "none", version |-> framework.version]

Created ==
  /\ factory.pc = "classified"
  /\ factory' = [factory EXCEPT
       !.pc = IF factory.framework.type = "google" THEN "created" ELSE "done",
       !.adapter = AdapterOf(factory.framework)]
  /\ FactoryUnchanged

\* the promise chain of case 'google' settles: the GoogleTestSuiteInfo is
\* made and nothing holds it
GoogleVersionResolved ==
  /\ factory.pc = "created"
  /\ factory' = [factory EXCEPT !.pc = "done", !.detached = "google"]
  /\ FactoryUnchanged

FactoryNext ==
  \/ Classified
  \/ Created
  \/ GoogleVersionResolved

FactorySpec == FactoryInit /\ [][FactoryNext]_vars

\* C35: create() resolves with the adapter of the framework the executable
\* was classified as, the classification prefers Catch2 to Google Test to
\* doctest, and an output with none of the three banners is rejected.
C35_AdapterOfTheClassifiedFramework ==
  /\ factory.pc \in {"created", "done"} =>
        /\ factory.adapter.type = factory.framework.type
        /\ factory.framework.type =
             (IF "catch2" \in factory.stdout THEN "catch2"
              ELSE IF "google" \in factory.stdout THEN "google" ELSE "doc")
  /\ (factory.pc # "start" /\ factory.stdout = {}) => factory.pc = "rejected"

(***************************************************************************)
(* Progress of the two pools                                               *)
(***************************************************************************)
Queued(pool, u) == \E i \in 1..Len(pool.queue) : pool.queue[i] = u

\* the steps of the program itself: every action but the requests and
\* events that come from outside (a run request, a cancellation, an
\* external reload, a rebuild)
ProgramNext ==
  \/ \E r \in Runs : BeforeTask(r)
  \/ \E r \in Runs : AfterTask(r)
  \/ \E r \in Runs, e \in Execs : BeforeEachTask(r, e)
  \/ \E r \in Runs, e \in Execs : AfterEachTask(r, e)
  \/ \E id \in BatchIds : InnerStart(id[1], id[2], id[3])
  \/ \E id \in BatchIds : ProcStart(id[1], id[2], id[3])
  \/ \E id \in BatchIds : BusyTimerFires(id[1], id[2], id[3])
  \/ \E id \in BatchIds : RescheduledStart(id[1], id[2], id[3])
  \/ \E id \in BatchIds : ProcClose(id[1], id[2], id[3])
  \/ \E u \in rl : ReloadStat(u)
  \/ \E u \in rl : ReloadEnumerated(u)
  \/ \E u \in rl : ReloadTuple(u)

RunIsOpen(r) == run[r].pc \notin {"idle", "returned"}

\* a batch asks for its process-wide slot only while it holds its
\* per-executable slot
SlotOrder ==
  \A id \in BatchIds :
    LET p == U("p", id[1], id[2], id[3])
    IN (Holds(gPool, p) \/ Queued(gPool, p)) =>
          Holds(ePool[id[2]], U("in", id[1], id[2], id[3]))

\* a unit in a process-wide slot is in no queue
HolderWaitsForNothing ==
  \A u \in gPool.running :
    /\ ~Queued(gPool, u)
    /\ \A e \in Execs, k \in {"in", "p", "p2"} :
         LET w == U(k, u[2], u[3], u[4])
         IN u[1] \in {"p", "p2"} => (~Queued(ePool[e], w) /\ ~Queued(gPool, w))

\* some step of ProgramNext can be taken: the guards of its actions
CanStep ==
  \/ \E r \in Runs : run[r].pc \in {"before", "after"}
  \/ \E r \in Runs, e \in Execs :
        \/ er[r][e].pc = "beforeEach" /\ Holds(gPool, U("be", r, e, 0))
        \/ er[r][e].pc = "afterEach" /\ Holds(gPool, U("ae", r, e, 0))
  \/ \E id \in BatchIds :
        LET pc == BatchPc(id[1], id[2], id[3])
        IN \/ pc = "waitExec" /\ Holds(ePool[id[2]], U("in", id[1], id[2], id[3]))
           \/ pc = "waitGlobal" /\ Holds(gPool, U("p", id[1], id[2], id[3]))
           \/ pc = "busyTimer"
           \/ pc = "reWait" /\ Holds(gPool, U("p2", id[1], id[2], id[3]))
           \/ pc \in {"running", "reRunning"}
  \/ \E u \in rl : u.pc = "stat" => Holds(gPool, u.id)

NoDeadlock == (\E r \in Runs : RunIsOpen(r)) => CanStep

\* what is left to do, as a number that every step of the program lowers.
\* A reloadTests unit has its stat, its enumeration and one step per
\* enumerated test before it; a batch its way through the two pools, its
\* process and the reload its exit may start; an AbstractRunnable.run call
\* its task stages, its reload and the batches the reload may lead to; a
\* RootSuite.run call its task stages and the runs of its executables.
ReloadWeight == TestsPerExec + 2

UnitWeight(u) ==
  CASE u.pc = "stat" -> ReloadWeight
    [] u.pc = "enum" -> ReloadWeight - 1
    [] OTHER -> Len(u.todo)

BatchWeight(pc) ==
  CASE pc = "pending" -> 6 + ReloadWeight
    [] pc = "waitExec" -> 5 + ReloadWeight
    [] pc = "waitGlobal" -> 4 + ReloadWeight
    [] pc = "busyTimer" -> 3 + ReloadWeight
    [] pc = "reWait" -> 2 + ReloadWeight
    [] pc \in {"running", "reRunning"} -> 1 + ReloadWeight
    [] OTHER -> 0

ReloadRank == cfg.tasks["afterEach"] + 2 + 2 * TestsPerExec * BatchWeight("pending")

ErRank(r, e) ==
  CASE er[r][e].pc = "beforeEach" ->
         (cfg.tasks["beforeEach"] - er[r][e].idx + 1) + ReloadWeight + ReloadRank
    [] er[r][e].pc = "reload" -> ReloadRank
    [] er[r][e].pc = "batches" -> cfg.tasks["afterEach"] + 1
    [] er[r][e].pc = "afterEach" -> cfg.tasks["afterEach"] - er[r][e].idx + 1
    [] OTHER -> 0

ErMax == cfg.tasks["beforeEach"] + ReloadWeight + ReloadRank

RunRank(r) ==
  CASE run[r].pc = "before" ->
         (cfg.tasks["before"] - run[r].idx + 1) + cfg.tasks["after"] + 1 +
         NumExecs * ErMax
    [] run[r].pc = "running" -> cfg.tasks["after"] + 1
    [] run[r].pc = "after" -> cfg.tasks["after"] - run[r].idx + 1
    [] OTHER -> 0

\* the weights as a bag: one copy of an item for each unit of its weight
Weight(x) ==
  CASE x[1] = "run" -> RunRank(x[2])
    [] x[1] = "er" -> ErRank(x[2], x[3])
    [] x[1] = "batch" -> BatchWeight(er[x[2]][x[3]].batches[x[4]].pc)
    [] OTHER -> UnitWeight(x[2])

WorkItems ==
  {<<"run", r>> : r \in Runs} \cup
  {<<"er", r, e>> : r \in Runs, e \in Execs} \cup
  {<<"batch", id[1], id[2], id[3]>> : id \in BatchIds} \cup
  {<<"unit", u>> : u \in rl}

WorkLeft ==
  BagCardinality([x \in {y \in WorkItems : Weight(y) > 0} |-> Weight(x)])

\* a step that comes from outside: a run request, a cancellation, a rebuild
\* of an executable, or a reload requested from outside a run
OutsideStep ==
  \/ \E r \in Runs : run[r].pc = "idle" /\ run'[r].pc # "idle"
  \/ cancelled' # cancelled
  \/ mtime' # mtime
  \/ \E u \in rl' : u.id[1] = "rlext" /\ \A v \in rl : v.id # u.id


\* C36: a batch asks for a process-wide slot only while it holds its
\* per-executable slot, a unit in a process-wide slot waits in no queue, as
\* long as a run is open some step of the program can be taken, and every
\* step of the program lowers the work that is left: with every process
\* closing, every run comes to its end, whatever the pool sizes are.
C36_SlotsCannotDeadlock ==
  /\ [](SlotOrder /\ HolderWaitsForNothing /\ NoDeadlock)
  /\ [][OutsideStep \/ WorkLeft' < WorkLeft]_vars

\* a batch holds its per-executable slot and waits in the queue of the
\* process-wide pool, whose slots are taken
C36_Witness ==
  \E id \in BatchIds :
    /\ Queued(gPool, U("p", id[1], id[2], id[3]))
    /\ Holds(ePool[id[2]], U("in", id[1], id[2], id[3]))
    /\ Cardinality(gPool.running) = cfg.global

(***************************************************************************)
(* The running counter of the RootSuite                                    *)
(***************************************************************************)
\* RootSuite.isRunning
isRunning == counter > 0

\* the runs that have started and have not sent their finished event
UnfinishedRuns == {r \in Runs : run[r].pc # "idle" /\ run[r].finishedSent = 0}

\* the counter counts the unfinished runs, and a run has sent its one
\* finished event exactly when it is through
CounterIsExact ==
  /\ counter >= 0
  /\ counter = Cardinality(UnfinishedRuns)
  /\ isRunning <=> UnfinishedRuns # {}
  /\ \A r \in Runs :
       run[r].finishedSent = (IF run[r].pc \in {"finished", "returned"} THEN 1 ELSE 0)

\* C37: the running counter is never negative and counts the runs that have
\* started and not sent their finished event, a run sends one finished
\* event, and none before it is through; isRunning holds exactly while such
\* a run exists; and the promise of run() resolves only in a step that
\* leaves the counter at zero.
C37_CounterCountsUnfinishedRuns ==
  /\ []CounterIsExact
  /\ [][\A r \in Runs :
          (run[r].pc # "returned" /\ run'[r].pc = "returned") => counter' = 0]_vars

\* one of two overlapping runs has sent its finished event and waits for
\* the other
C37_Witness ==
  \E r, q \in Runs :
    /\ run[r].pc = "finished"
    /\ run[q].pc \notin {"idle", "finished", "returned"}
    /\ counter = 1

(***************************************************************************)
(* Cancellation: overlapping run requests and one cancellation, with no    *)
(* tasks configured                                                        *)
(***************************************************************************)
\* as Init, with no auxiliary tasks and room for one more request from
\* outside: a second run request and a cancellation
CancelInit ==
  /\ cfg \in [global : 1..MaxGlobal, parallel : 1..MaxParallel,
              tasks : {[s \in Stages |-> 0]}]
  /\ gPool = EmptyPool
  /\ ePool = [e \in Execs |-> EmptyPool]
  /\ counter = 0
  /\ tokenGen = 0
  /\ cancelled = {}
  /\ run = [r \in Runs |-> IdleRun]
  /\ er = [r \in Runs |-> [e \in Execs |-> IdleEr]]
  /\ rl = {}
  /\ tests = [e \in Execs |-> RealTests(e)]
  /\ lastReloadTime = [e \in Execs |-> 1]
  /\ tstate = [t \in AllTests |-> "Unset"]
  /\ mtime = [e \in Execs |-> 1]
  /\ binTests = [e \in Execs |-> RealTests(e)]
  /\ budget = MaxEnv + 1
  /\ treeCfg = [sameLabel |-> FALSE, depth |-> MaxDepth]
  /\ TreeStart
  /\ ParseStart
  /\ StepStart

CancelNext ==
  \/ \E r \in Runs : StartRun(r)
  \/ \E r \in Runs : Cancel(r)
  \/ \E id \in BatchIds : InnerStart(id[1], id[2], id[3])
  \/ \E id \in BatchIds : ProcStart(id[1], id[2], id[3])
  \/ \E id \in BatchIds : BusyTimerFires(id[1], id[2], id[3])
  \/ \E id \in BatchIds : RescheduledStart(id[1], id[2], id[3])
  \/ \E id \in BatchIds : ProcClose(id[1], id[2], id[3])
  \/ \E u \in rl : ReloadStat(u)
  \/ \E u \in rl : ReloadEnumerated(u)
  \/ \E u \in rl : ReloadTuple(u)

CancelSpec == CancelInit /\ [][CancelNext]_vars

\* the runs in progress whose signal a step sets
NewlyCancelled ==
  {q \in Runs : run[q].pc \notin {"idle", "returned"} /\ run[q].tok \in cancelled' \ cancelled}

\* C38: a cancellation request, which is the request of one run, sets the
\* signal of no second run in progress, and a run request begins with a
\* signal that is not set.
C38_CancellationIsPerRun ==
  [][/\ Cardinality(NewlyCancelled) <= 1
     /\ \A r \in Runs :
          (run[r].pc = "idle" /\ run'[r].pc # "idle") => run'[r].tok \notin cancelled']_vars

\* what the enumeration of reload unit u reports: the tests it has added
\* and those still to add, or, before the payload is looked at, what the
\* executable lists
Payload(u) ==
  IF u.pc = "apply" THEN u.result \cup Range(u.todo) ELSE binTests[u.e]

\* C39: a test leaves _tests only in the step that ends a reload of its
\* executable whose enumeration does not report it, also when that reload
\* was cut short by a cancellation.
C39_RemovedOnlyIfNotEnumerated ==
  [][\A e \in Execs : \A t \in tests[e] \ tests'[e] :
       \E u \in rl : /\ u.e = e
                     /\ \A v \in rl' : v.id # u.id
                     /\ t \notin Payload(u)]_vars

====
